---- MODULE Spec2Model ----
(***************************************************************************)
(* Model of the UDP correlation client of mcp_server_smartbulb             *)
(* (udp_client.py: UDPBulbClient) as a state machine.                      *)
(*                                                                         *)
(* One asyncio event loop runs every coroutine: the code between two       *)
(* awaits is one atomic step.  send_command has two suspension points,     *)
(* the executor sendto (pc "sending") and wait_for on the response future  *)
(* (pc "waiting").  The source holds no receive path: nothing reads the    *)
(* socket and nothing ever sets a result on a response future, so a        *)
(* future is either pending or cancelled.  Replies of the device are kept  *)
(* as what they are for this code: datagrams that reached the endpoint.    *)
(*                                                                         *)
(* The calls in flight are a bag of call records.  pending_commands maps   *)
(* an id to the future of one call in flight; it is kept as the mark reg   *)
(* of that call (the table holds this call's future under the call's id),  *)
(* which is the same information: every way a call ends pops its id, so    *)
(* the table never holds the future of a call that has ended.              *)
(*                                                                         *)
(* The registry and the discovery of bulb_discovery.py (BulbDiscovery) run *)
(* on top of the clients.  Their coroutines suspend only inside a client   *)
(* call, so a coroutine that is suspended is kept with the call it awaits  *)
(* and goes on in the step right after that call ends.  Spec follows one   *)
(* client under every use of its interface; RegSpec follows the registry   *)
(* and the clients it constructs, StatusSpec adds get_all_bulb_statuses,   *)
(* and DiscSpec follows a scan of discover_bulbs with its probe clients.   *)
(***************************************************************************)
EXTENDS Integers, Sequences, FiniteSets, Bags, TLC

(* ---------------------------- bounds ----------------------------------- *)
\* send_command calls that can be in flight at the same time
MaxCalls == 2
\* correlation ids a caller may put in BulbCommand.id itself
NumIds == 1
\* datagram endpoints (sockets) that can be open at the same time when one
\* client is followed
MaxEndpoints == 1
\* client objects the registry and the discovery construct
MaxClients == 2
\* device addresses ("ip:port" keys)
NumAddrs == 2
\* longest string the callers of set_color_hex are given, character by character
MaxLen == 6
\* the host number of the broadcast address of the local network, where the
\* scan stops: 255 in the source's /24, a network of three host numbers here
LastHost == 2

\* BulbConfig.timeout, the unit of the model's clock
Timeout == 1

\* the client objects: clients share no state, the model follows one
Clients == {1}
CallerIds == 1..NumIds
\* the tokens generate_command_id hands out
GeneratedIds == (NumIds + 1)..(NumIds + MaxCalls)
\* BulbCommand.id = None
NoId == 0
\* self.socket = None
NoSocket == 0
\* a socket object whose close() raised: it holds no descriptor any more
DeadSocket == -1
\* the clients BulbDiscovery constructs
Objects == 1..MaxClients
\* no client: connected_bulbs.get(key) = None
NoClient == 0
Addrs == 1..NumAddrs
\* the address of a client that is not constructed yet
NoAddr == 0
\* the first host number of the scan: range(1, 255)
FirstHost == 1
\* ports are below PortSpan: a host number and a port make one address
PortSpan == 10

VARIABLES
    socket,        \* socket[c]: the endpoint self.socket refers to, or NoSocket
    running,       \* running[c]: self.running
    last_status,   \* last_status[c]: self.last_status
    calls,         \* the send_command calls in flight, with pending_commands
    openEps,       \* the endpoints that are open in the process
    outcome,       \* what the latest step handed to a caller, if anything
    config,        \* config[c]: the address in self.config of client c
    connected_bulbs, \* BulbDiscovery.connected_bulbs, in the order of the dict
    awaiting,      \* the suspended coroutines of BulbDiscovery, by awaited call
    probes,        \* the probes of the discover_bulbs call that is running
    regOut,        \* what the latest step handed to a caller of BulbDiscovery
    held,          \* the snapshot copy a caller was handed and holds
    hex_color,     \* the string a caller passes to set_color_hex
    default_bulb   \* the server's global default_bulb: a client, or NoClient

clientVars == <<socket, running, last_status, calls, openEps, outcome>>
regVars == <<config, connected_bulbs, awaiting, probes, regOut>>
callerVars == <<held, hex_color, default_bulb>>
vars == <<socket, running, last_status, calls, openEps, outcome,
          config, connected_bulbs, awaiting, probes, regOut, held, hex_color, default_bulb>>

(* ---------------------------- data ------------------------------------- *)
\* the snapshot __init__ builds
InitialStatus ==
    [power |-> FALSE, brightness |-> 0, color |-> <<255, 255, 255>>,
     connected |-> FALSE]

\* the calls in flight.  (A call that has ended leaves the bag with the pop
\* of its "finally"; a record marked "ended" would be the future of an ended
\* call that the table still holds.)
InFlight == {r \in BagToSet(calls) : r.pc # "ended"}

\* self.pending_commands of client c: the calls whose future it holds
pending_commands(c) == {r \in BagToSet(calls) : r.client = c /\ r.reg}

\* the keys of self.pending_commands
PendingIds(c) == {r.id : r \in pending_commands(c)}

\* str(uuid.uuid4())[:8]: a token no call in flight holds, outside the ids
\* callers choose themselves
generate_command_id ==
    CHOOSE g \in GeneratedIds \ {r.id : r \in InFlight} :
        \A h \in GeneratedIds \ {r.id : r \in InFlight} : g <= h

\* command.id after "if not command.id: command.id = self.generate_command_id()"
CommandId(cid) == IF cid = NoId THEN generate_command_id ELSE cid

\* the table of client c without its entry for id
Pop(B, c, id) ==
    LET drop(r) == IF r.client = c /\ r.id = id THEN [r EXCEPT !.reg = FALSE] ELSE r
    IN  BagOfAll(drop, B)

\* self.pending_commands[command.id] = response_future: the entry of call r,
\* in place of any entry the id had
Register(B, r) == Pop(B, r.client, r.id) (+) SetToBag({[r EXCEPT !.reg = TRUE]})

\* "if not self.socket or not self.running"
NotConnected(c) == socket[c] = NoSocket \/ ~running[c]

\* the exception classes "except Exception" catches: asyncio.CancelledError
\* derives from BaseException and passes through
IsException(exc) == exc \in {"ConnectionError", "OSError", "ValueError", "TimeoutError"}

\* BulbResponse(success=False, error="Command timeout", id=command.id)
TimeoutResponse(id) == [success |-> FALSE, error |-> "Command timeout", rid |-> id]

\* a failure response that does not carry the id of the command
ErrorResponseNoId(id) == [success |-> FALSE, error |-> "OSError", rid |-> NoId]

\* BulbResponse(success=False, error=str(e), id=command.id)
ErrorResponse(id) == [success |-> FALSE, error |-> "OSError", rid |-> id]

NoResponse == [success |-> FALSE, error |-> "", rid |-> NoId]

\* one send_command call: its client, the operation that made it, its id, the
\* endpoint it sends from, where it stands ("sending": in the executor's
\* sendto, "waiting": in wait_for), its future, the time wait_for has
\* waited, the reply to it that has reached the endpoint, and whether
\* pending_commands holds its future
NewCall(c, op, id, sock) ==
    [client |-> c, op |-> op, id |-> id, ep |-> sock, pc |-> "sending",
     fut |-> "pending", elapsed |-> 0, reply |-> "none", reg |-> FALSE]

\* nothing was handed to a caller
NoOutcome ==
    [kind |-> "none", client |-> 0, op |-> "", id |-> NoId, pc |-> "",
     resp |-> NoResponse, exc |-> "", elapsed |-> 0, reply |-> "none",
     popped |-> "none"]

\* an operation raised exc before its first await
RaisedAtOnce(c, op, exc) ==
    [NoOutcome EXCEPT !.kind = "raised", !.client = c, !.op = op, !.exc = exc]

\* the entry "finally" pops as call r ends: the call's own, the entry of
\* another call that holds the same id, or none
PoppedBy(r) ==
    IF r.reg THEN "own"
    ELSE IF r.id \in PendingIds(r.client) THEN "other"
    ELSE "none"

\* call r ended: kind "returned" with the response send_command returned, or
\* "raised" with the error that left it; with it where the call stood, how
\* long it had waited, the reply that had reached the endpoint while it
\* waited, and the entry its "finally" popped
EndOf(r, kind, response, exc) ==
    [NoOutcome EXCEPT !.kind = kind, !.client = r.client, !.op = r.op,
                      !.id = r.id, !.pc = r.pc, !.resp = response, !.exc = exc,
                      !.elapsed = r.elapsed, !.reply = r.reply,
                      !.popped = PoppedBy(r)]

\* response.data: the responses send_command builds itself carry none
NoData == <<>>
DataOf(resp) == IF "data" \in DOMAIN resp THEN resp.data ELSE NoData

\* self.last_status.update(data)
Merge(st, data) ==
    [f \in DOMAIN st \cup DOMAIN data |-> IF f \in DOMAIN data THEN data[f] ELSE st[f]]

\* a get_status that leaves the snapshot as it is when the response is no
\* success
AfterResponseKeepsFlag(st, op, resp) ==
    CASE op = "connect" -> [st EXCEPT !.connected = TRUE]
      [] op = "get_status" ->
           IF resp.success /\ DOMAIN DataOf(resp) # {}
           THEN [Merge(st, DataOf(resp)) EXCEPT !.connected = TRUE]
           ELSE st
      [] OTHER -> st

\* what the calling operation does with the response send_command returned:
\* connect ignores the value ping returns and marks the snapshot connected;
\* get_status merges the data and marks the snapshot connected "if
\* response.success and response.data", and marks it not connected otherwise
AfterResponse(st, op, resp) ==
    CASE op = "connect" -> [st EXCEPT !.connected = TRUE]
      [] op = "get_status" ->
           IF resp.success /\ DOMAIN DataOf(resp) # {}
           THEN [Merge(st, DataOf(resp)) EXCEPT !.connected = TRUE]
           ELSE [st EXCEPT !.connected = FALSE]
      [] OTHER -> st

\* socket.socket(): the operating system hands out the lowest free descriptor
\* the descriptors of the process: one for every client, and those a client
\* that connects again without close() leaves open
Endpoints == 1..(MaxEndpoints + Cardinality(DOMAIN socket) - 1)
NewEndpoint == CHOOSE e \in Endpoints \ openEps :
                  \A f \in Endpoints \ openEps : e <= f

\* no snapshot copy is held
NoCopy == [of |-> NoClient]

\* the copy h stops sharing the color dict of the client's snapshot st and
\* keeps the dict it was made with
Unshare(h, st) == [h EXCEPT !.shares_color = FALSE, !.own_color = st[h.of].color]

\* the step ends a get_status of client c with a success response whose data
\* has a color: last_status.update(data) binds a new dict under "color"
ColorRebound(c) ==
    /\ outcome.kind = "none" /\ outcome'.kind = "returned"
    /\ outcome'.client = c /\ outcome'.op = "get_status"
    /\ outcome'.resp.success /\ "color" \in DOMAIN DataOf(outcome'.resp)

\* what a step of the client does to the copy a caller holds
KeepCopy ==
    held' = IF held.of # NoClient /\ held.shares_color /\ ColorRebound(held.of)
            THEN Unshare(held, last_status)
            ELSE held

(* ---------------------------- the registry ----------------------------- *)
\* a slot of the dict connected_bulbs: a key and its client.  The slot of a
\* deleted entry stays as a hole until the dict is cleared; an iterator over
\* the dict walks the slots
Slot(a, c) == [key |-> a, client |-> c, live |-> TRUE]
Hole == [key |-> NoAddr, client |-> NoClient, live |-> FALSE]
LiveSlots(D) == {i \in 1..Len(D) : D[i].live}
SlotOf(D, a) == CHOOSE i \in LiveSlots(D) : D[i].key = a
HasKey(D, a) == \E i \in LiveSlots(D) : D[i].key = a

\* self.connected_bulbs.get(bulb_key)
get_bulb(D, a) == IF HasKey(D, a) THEN D[SlotOf(D, a)].client ELSE NoClient

\* self.connected_bulbs[bulb_key] = client
SetItem(D, a, c) ==
    IF HasKey(D, a) THEN [D EXCEPT ![SlotOf(D, a)].client = c]
    ELSE Append(D, Slot(a, c))

\* del self.connected_bulbs[bulb_key]
DelItem(D, a) == [D EXCEPT ![SlotOf(D, a)] = Hole]

\* self.connected_bulbs.values()
Values(D) == {D[i].client : i \in LiveSlots(D)}

\* UDPBulbClient(config): the next client object
NewClient == CHOOSE c \in DOMAIN config :
                /\ config[c] = NoAddr
                /\ \A d \in DOMAIN config : config[d] = NoAddr => c <= d

\* a coroutine of BulbDiscovery suspended in a client call: the id of the
\* call it awaits, what it is, the address and the client it works on, and
\* for get_all_bulb_statuses the iterator over the dict and the records so far
NoIter == [pos |-> 0, len |-> 0, used |-> 0]
Waiter(id, kind, a, c) ==
    [id |-> id, kind |-> kind, addr |-> a, client |-> c, it |-> NoIter,
     records |-> <<>>]

\* the coroutine that awaits the call that has just ended
Woken(w) == w \in awaiting /\ outcome.pc # "" /\ outcome.id = w.id

\* a step in which BulbDiscovery hands back a value without a client call
Handed == [NoOutcome EXCEPT !.kind = "registry"]

\* nothing was handed to a caller of BulbDiscovery
NoRegOut ==
    [op |-> "", kind |-> "none", at |-> "", addr |-> NoAddr, client |-> NoClient,
     exc |-> "", value |-> FALSE, records |-> <<>>, found |-> {}, pinged |-> {},
     answered |-> {}, closed |-> {}, failed |-> {}]

\* what an operation of BulbDiscovery hands to its caller
RegReturned(op, at, a, c) ==
    [NoRegOut EXCEPT !.op = op, !.kind = "returned", !.at = at, !.addr = a,
                     !.client = c]
RegRaised(op, at, a, exc) ==
    [NoRegOut EXCEPT !.op = op, !.kind = "raised", !.at = at, !.addr = a,
                     !.exc = exc]

(* ---------------------------- initial state ----------------------------- *)
\* the clients of S as __init__ leaves them, and BulbDiscovery.__init__
InitOver(S) ==
    /\ socket = [c \in S |-> NoSocket]
    /\ running = [c \in S |-> FALSE]
    /\ last_status = [c \in S |-> InitialStatus]
    /\ calls = EmptyBag
    /\ openEps = {}
    /\ outcome = NoOutcome
    /\ connected_bulbs = <<>>
    /\ awaiting = {}
    /\ probes = <<>>
    /\ regOut = NoRegOut
    /\ held = NoCopy
    /\ hex_color = <<>>
    /\ default_bulb = NoClient

\* one client, constructed for an address
Init ==
    /\ InitOver(Clients)
    /\ config = [c \in Clients |-> 1]

\* a BulbDiscovery that has constructed no client yet
RegInit ==
    /\ InitOver(Objects)
    /\ config = [c \in Objects |-> NoAddr]

(* ---------------------------- operations -------------------------------- *)
\* a caller that was handed something continues in the same step of the event
\* loop: nothing else runs before Resume
Idle == outcome.kind = "none"

\* send_command without the connection test: the future is registered
\* whatever the state of the client
BeginCommandNoTest(c, op, cid, sock, run) ==
    /\ BagCardinality(calls) < MaxCalls
    /\ calls' = Register(calls, NewCall(c, op, CommandId(cid), sock))
    /\ outcome' = NoOutcome

\* send_command up to its first await: the connection test, the id, the
\* registration of the future
BeginCommand(c, op, cid, sock, run) ==
    IF sock = NoSocket \/ ~run
    THEN /\ outcome' = RaisedAtOnce(c, op, "ConnectionError")
         /\ UNCHANGED calls
    ELSE /\ BagCardinality(calls) < MaxCalls
         /\ calls' = Register(calls, NewCall(c, op, CommandId(cid), sock))
         /\ outcome' = NoOutcome

\* connect(): a new socket, running = True, then ping() up to its first await
Connect(c) ==
    /\ Idle
    /\ openEps # Endpoints
    /\ socket' = [socket EXCEPT ![c] = NewEndpoint]
    /\ openEps' = openEps \cup {NewEndpoint}
    /\ running' = [running EXCEPT ![c] = TRUE]
    /\ BeginCommand(c, "connect", NoId, NewEndpoint, TRUE)
    /\ UNCHANGED last_status

\* connect() when socket.socket() raises: the except branch marks the
\* snapshot unreachable and re-raises
ConnectSocketError(c) ==
    /\ Idle
    /\ outcome' = RaisedAtOnce(c, "connect", "OSError")
    /\ last_status' = [last_status EXCEPT ![c].connected = FALSE]
    /\ UNCHANGED <<socket, running, calls, openEps>>

\* send_command(BulbCommand(command, id=cid)) called directly
SendCommand(c, cid) ==
    /\ Idle
    /\ BeginCommand(c, "send_command", cid, socket[c], running[c])
    /\ UNCHANGED <<socket, running, last_status, openEps>>

\* the executor finished socket.sendto: the coroutine goes on to wait_for
SendtoDone(r) ==
    /\ Idle
    /\ r.pc = "sending"
    /\ calls' = (calls (-) SetToBag({r}))
                   (+) SetToBag({[r EXCEPT !.pc = "waiting", !.elapsed = 0]})
    /\ outcome' = NoOutcome
    /\ UNCHANGED <<socket, running, last_status, openEps>>

\* the bag without the records of ended calls the table does not hold
Purge(B) == [x \in {y \in DOMAIN B : ~(y.pc = "ended" /\ ~y.reg)} |-> B[x]]

\* send_command without its finally clause: the call ends and its pending
\* entry stays in the table
CleanupKeepsEntry(r) ==
    Purge((calls (-) SetToBag({r})) (+) SetToBag({[r EXCEPT !.pc = "ended"]}))

\* call r ends: "finally: self.pending_commands.pop(command.id, None)"
Cleanup(r) ==
    Purge(Pop((calls (-) SetToBag({r})) (+) SetToBag({[r EXCEPT !.pc = "ended"]}),
              r.client, r.id))

\* the end of send_command with a response: "finally" pops the id, the
\* caller continues with the response
ReturnResponse(r, response) ==
    /\ outcome' = EndOf(r, "returned", response, "")
    /\ calls' = Cleanup(r)
    /\ last_status' = [last_status EXCEPT
                         ![r.client] = AfterResponse(last_status[r.client], r.op, response)]
    /\ UNCHANGED <<socket, running, openEps>>

\* socket.sendto raised in the executor: "except Exception" turns it into a
\* failure response
SendtoFail(r) ==
    /\ Idle
    /\ r.pc = "sending"
    /\ ReturnResponse(r, ErrorResponse(r.id))

\* the clock: the time every wait_for has been waiting.  A wait_for whose
\* timeout has passed, or whose future is cancelled, wakes before more time
\* passes
Tick ==
    LET later(r) == IF r.pc = "waiting" THEN [r EXCEPT !.elapsed = @ + 1] ELSE r IN
    /\ Idle
    /\ \E r \in InFlight : r.pc = "waiting"
    /\ \A r \in InFlight : r.pc = "waiting" => r.fut = "pending" /\ r.elapsed < Timeout
    /\ calls' = BagOfAll(later, calls)
    /\ outcome' = NoOutcome
    /\ UNCHANGED <<socket, running, last_status, openEps>>

\* a wait_for whose timeout never passes
TimeoutFireNever(r) ==
    /\ Idle
    /\ r.pc = "waiting"
    /\ r.fut = "pending"
    /\ r.elapsed > Timeout
    /\ ReturnResponse(r, TimeoutResponse(r.id))

\* wait_for raises asyncio.TimeoutError once config.timeout has passed
TimeoutFire(r) ==
    /\ Idle
    /\ r.pc = "waiting"
    /\ r.fut = "pending"
    /\ r.elapsed = Timeout
    /\ ReturnResponse(r, TimeoutResponse(r.id))

\* wait_for on a cancelled future raises asyncio.CancelledError, which no
\* "except Exception" catches: "finally" pops the id and the error leaves
\* send_command and its caller
CancelledWake(r) ==
    /\ Idle
    /\ r.pc = "waiting"
    /\ r.fut = "cancelled"
    /\ outcome' = EndOf(r, "raised", NoResponse, "CancelledError")
    /\ calls' = Cleanup(r)
    /\ UNCHANGED <<socket, running, last_status, openEps>>

\* a close() that cancels the futures of every client's table, not of the
\* tables of the clients in S alone
CancelEveryClient(B, S) ==
    LET cancel(r) == IF r.reg
                     THEN [r EXCEPT !.fut = "cancelled", !.reg = FALSE]
                     ELSE r
    IN  BagOfAll(cancel, B)

\* close() cancels every future the tables of the clients in S hold and
\* clears the tables
CancelAll(B, S) ==
    LET cancel(r) == IF r.client \in S /\ r.reg
                     THEN [r EXCEPT !.fut = "cancelled", !.reg = FALSE]
                     ELSE r
    IN  BagOfAll(cancel, B)

\* the body of close(): it never suspends
CloseBody(c) ==
    /\ running' = [running EXCEPT ![c] = FALSE]
    /\ calls' = CancelAll(calls, {c})
    /\ socket' = [socket EXCEPT ![c] = NoSocket]
    /\ openEps' = openEps \ {socket[c]}
    /\ outcome' = [NoOutcome EXCEPT !.kind = "closed", !.client = c, !.op = "close"]
    /\ UNCHANGED last_status

\* the body of close() when self.socket.close() raises OSError: the
\* descriptor is gone, "self.socket = None" is not reached
CloseErrorBody(c) ==
    /\ socket[c] \notin {NoSocket, DeadSocket}
    /\ running' = [running EXCEPT ![c] = FALSE]
    /\ calls' = CancelAll(calls, {c})
    /\ socket' = [socket EXCEPT ![c] = DeadSocket]
    /\ openEps' = openEps \ {socket[c]}
    /\ outcome' = [RaisedAtOnce(c, "close", "OSError") EXCEPT !.kind = "raised"]
    /\ UNCHANGED last_status

\* close()
Close(c) == Idle /\ CloseBody(c)

\* close() when closing the socket fails
CloseSocketError(c) == Idle /\ CloseErrorBody(c)

\* the device answers a datagram it received while the sender still waits:
\* the reply, carrying the command's id, reaches the endpoint the datagram
\* came from before the timeout has passed.  (A reply that comes later, or
\* to an endpoint the client gave up, changes nothing: no code reads it.)
DeviceReply(r, ok) ==
    /\ Idle
    /\ r.pc = "waiting"
    /\ r.fut = "pending"
    /\ r.elapsed < Timeout
    /\ r.reply = "none"
    /\ r.ep = socket[r.client]
    /\ calls' = (calls (-) SetToBag({r}))
                   (+) SetToBag({[r EXCEPT !.reply = IF ok THEN "ok" ELSE "fail"]})
    /\ outcome' = NoOutcome
    /\ UNCHANGED <<socket, running, last_status, openEps>>

\* the caller goes on with what it was handed
Resume ==
    /\ outcome.kind # "none"
    /\ outcome' = NoOutcome
    /\ UNCHANGED <<socket, running, last_status, calls, openEps>>

(* ---------------------------- BulbDiscovery ----------------------------- *)
\* connect_to_bulb that does not look the key up: a new client and its
\* connect() on every call
ConnectToBulbNoLookup(a) ==
    /\ \E c \in DOMAIN config : config[c] = NoAddr
    /\ config' = [config EXCEPT ![NewClient] = a]
    /\ Connect(NewClient)
    /\ awaiting' = awaiting \cup
           {Waiter(generate_command_id, "connect_to_bulb", a, NewClient)}
    /\ UNCHANGED <<connected_bulbs, probes, regOut, held, hex_color, default_bulb>>

\* connect_to_bulb(ip, port) up to its first await: the client the registry
\* holds for the key, or a new client and its connect()
ConnectToBulb(a) ==
    IF HasKey(connected_bulbs, a)
    THEN /\ Idle
         /\ regOut' = RegReturned("connect_to_bulb", "call", a, get_bulb(connected_bulbs, a))
         /\ outcome' = Handed
         /\ UNCHANGED <<socket, running, last_status, calls, openEps>>
         /\ UNCHANGED <<config, connected_bulbs, awaiting, probes, held, hex_color, default_bulb>>
    ELSE /\ \E c \in DOMAIN config : config[c] = NoAddr
         /\ config' = [config EXCEPT ![NewClient] = a]
         /\ Connect(NewClient)
         /\ awaiting' = awaiting \cup
                {Waiter(generate_command_id, "connect_to_bulb", a, NewClient)}
         /\ UNCHANGED <<connected_bulbs, probes, regOut, held, hex_color, default_bulb>>

\* connect_to_bulb when socket.socket() raises in connect(): "except
\* Exception: ... raise", nothing is registered
ConnectToBulbSocketError(a) ==
    /\ ~HasKey(connected_bulbs, a)
    /\ \E c \in DOMAIN config : config[c] = NoAddr
    /\ config' = [config EXCEPT ![NewClient] = a]
    /\ ConnectSocketError(NewClient)
    /\ regOut' = RegRaised("connect_to_bulb", "call", a, "OSError")
    /\ UNCHANGED <<connected_bulbs, awaiting, probes, held, hex_color, default_bulb>>

\* connect_to_bulb after "await client.connect()": connect() returned, the
\* client is registered and returned; an error that left connect() leaves
\* connect_to_bulb
ConnectToBulbResume(w) ==
    /\ Woken(w)
    /\ w.kind = "connect_to_bulb"
    /\ IF outcome.kind = "returned"
       THEN /\ connected_bulbs' = SetItem(connected_bulbs, w.addr, w.client)
            /\ regOut' = RegReturned("connect_to_bulb", "resume", w.addr, w.client)
       ELSE /\ regOut' = RegRaised("connect_to_bulb", "resume", w.addr, outcome.exc)
            /\ UNCHANGED connected_bulbs
    /\ awaiting' = awaiting \ {w}
    /\ UNCHANGED <<socket, running, last_status, calls, openEps, outcome>>
    /\ UNCHANGED <<config, probes, held, hex_color, default_bulb>>

\* disconnect_bulb(ip, port): close() does not suspend, so the close and the
\* del are one step
DisconnectBulb(a) ==
    /\ Idle
    /\ IF HasKey(connected_bulbs, a)
       THEN /\ CloseBody(get_bulb(connected_bulbs, a))
            /\ connected_bulbs' = DelItem(connected_bulbs, a)
            /\ regOut' = [RegReturned("disconnect_bulb", "call", a,
                                      get_bulb(connected_bulbs, a))
                            EXCEPT !.value = TRUE]
       ELSE /\ outcome' = Handed
            /\ regOut' = RegReturned("disconnect_bulb", "call", a, NoClient)
            /\ UNCHANGED <<socket, running, last_status, calls, openEps>>
            /\ UNCHANGED connected_bulbs
    /\ UNCHANGED <<config, awaiting, probes, held, hex_color, default_bulb>>

\* disconnect_bulb when close() raises: the del is not reached
DisconnectBulbCloseError(a) ==
    /\ Idle
    /\ HasKey(connected_bulbs, a)
    /\ CloseErrorBody(get_bulb(connected_bulbs, a))
    /\ regOut' = RegRaised("disconnect_bulb", "call", a, "OSError")
    /\ UNCHANGED <<config, connected_bulbs, awaiting, probes, held, hex_color, default_bulb>>

\* close_all_connections without its "try ... except Exception": the first
\* close() that raises ends the loop, the clients after it are not closed and
\* the dict is not cleared
CloseAllConnectionsNoTry(F) ==
    LET S == Values(connected_bulbs)
        first == IF F = {} THEN Len(connected_bulbs)
                 ELSE CHOOSE i \in LiveSlots(connected_bulbs) :
                        /\ connected_bulbs[i].client \in F
                        /\ \A j \in LiveSlots(connected_bulbs) :
                               connected_bulbs[j].client \in F => i <= j
        T == {connected_bulbs[i].client : i \in {j \in LiveSlots(connected_bulbs) : j <= first}}
        f == IF F = {} THEN {} ELSE {connected_bulbs[first].client}
    IN
    /\ Idle
    /\ F \subseteq {c \in S : socket[c] \notin {NoSocket, DeadSocket}}
    /\ running' = [c \in DOMAIN running |-> IF c \in T THEN FALSE ELSE running[c]]
    /\ calls' = CancelAll(calls, T)
    /\ socket' = [c \in DOMAIN socket |->
                    IF c \in f THEN DeadSocket
                    ELSE IF c \in T THEN NoSocket ELSE socket[c]]
    /\ openEps' = openEps \ {socket[c] : c \in T}
    /\ connected_bulbs' = IF F = {} THEN <<>> ELSE connected_bulbs
    /\ outcome' = [NoOutcome EXCEPT !.kind = "closed_all", !.op = "close_all_connections"]
    /\ regOut' = IF F = {}
                 THEN [RegReturned("close_all_connections", "call", NoAddr, NoClient)
                         EXCEPT !.closed = T]
                 ELSE [RegRaised("close_all_connections", "call", NoAddr, "OSError")
                         EXCEPT !.closed = T, !.failed = f]
    /\ UNCHANGED <<last_status, config, awaiting, probes, held, hex_color, default_bulb>>

\* close_all_connections(): every client of the dict is closed inside
\* "try ... except Exception", F are the clients whose close() raises; then
\* the dict is cleared.  No close() suspends: one step
CloseAllConnections(F) ==
    LET S == Values(connected_bulbs) IN
    /\ Idle
    /\ F \subseteq {c \in S : socket[c] \notin {NoSocket, DeadSocket}}
    /\ running' = [c \in DOMAIN running |-> IF c \in S THEN FALSE ELSE running[c]]
    /\ calls' = CancelAll(calls, S)
    /\ socket' = [c \in DOMAIN socket |->
                    IF c \in F THEN DeadSocket
                    ELSE IF c \in S THEN NoSocket ELSE socket[c]]
    /\ openEps' = openEps \ {socket[c] : c \in S}
    /\ connected_bulbs' = <<>>
    /\ outcome' = [NoOutcome EXCEPT !.kind = "closed_all", !.op = "close_all_connections"]
    /\ regOut' = [RegReturned("close_all_connections", "call", NoAddr, NoClient)
                    EXCEPT !.closed = S, !.failed = F]
    /\ UNCHANGED <<last_status, config, awaiting, probes, held, hex_color, default_bulb>>

\* iter(self.connected_bulbs.items()): the iterator remembers the size of
\* the dict and the number of items still to come
NewIter(D) ==
    [pos |-> 1, len |-> Cardinality(LiveSlots(D)), used |-> Cardinality(LiveSlots(D))]

\* the slots the iterator has not passed
SlotsLeft(D, it) == {i \in LiveSlots(D) : i >= it.pos}
NextSlot(D, it) == CHOOSE i \in SlotsLeft(D, it) : \A j \in SlotsLeft(D, it) : i <= j

\* next() on the iterator: RuntimeError when the size of the dict changed,
\* or when an item turns up after all expected ones were handed out
IterNext(D, it) ==
    IF it.used # Cardinality(LiveSlots(D)) THEN "error"
    ELSE IF SlotsLeft(D, it) = {} THEN "stop"
    ELSE IF it.len = 0 THEN "error"
    ELSE "item"

\* the record get_all_bulb_statuses appends for a client: the status
\* get_status() returned, or {"connected": False, "error": str(e)}
StatusRecord(a, st) == [bulb |-> a, connected |-> st.connected, synthetic |-> FALSE]
SyntheticRecord(a) == [bulb |-> a, connected |-> FALSE, synthetic |-> TRUE]

\* the loop of get_all_bulb_statuses from the head of an iteration up to its
\* next suspension: a client that is not connected raises ConnectionError
\* in send_command at once, the loop appends the synthetic record and goes
\* on; with a connected client the coroutine suspends in get_status()
RECURSIVE StatusLoop(_, _, _)
StatusLoop(D, it, recs) ==
    CASE IterNext(D, it) = "error" ->
           [kind |-> "error", it |-> it, records |-> recs, client |-> NoClient, addr |-> NoAddr]
      [] IterNext(D, it) = "stop" ->
           [kind |-> "done", it |-> it, records |-> recs, client |-> NoClient, addr |-> NoAddr]
      [] OTHER ->
           LET i == NextSlot(D, it)
               nit == [it EXCEPT !.pos = i + 1, !.len = @ - 1]
           IN  IF NotConnected(D[i].client)
               THEN StatusLoop(D, nit, Append(recs, SyntheticRecord(D[i].key)))
               ELSE [kind |-> "await", it |-> nit, records |-> recs,
                     client |-> D[i].client, addr |-> D[i].key]

\* get_all_bulb_statuses goes on from lp: it suspends in the get_status() of
\* the next client, returns its records, or ends with the RuntimeError of
\* the iterator
StatusesStep(lp, at) ==
    CASE lp.kind = "await" ->
           /\ BeginCommand(lp.client, "get_status", NoId,
                           socket[lp.client], running[lp.client])
           /\ awaiting' = {w \in awaiting : ~Woken(w)} \cup
                  {[Waiter(generate_command_id, "statuses", lp.addr, lp.client)
                      EXCEPT !.it = lp.it, !.records = lp.records]}
           /\ regOut' = NoRegOut
      [] lp.kind = "done" ->
           /\ regOut' = [RegReturned("get_all_bulb_statuses", at, NoAddr, NoClient)
                           EXCEPT !.records = lp.records]
           /\ outcome' = IF at = "call" THEN Handed ELSE outcome
           /\ awaiting' = {w \in awaiting : ~Woken(w)}
           /\ UNCHANGED calls
      [] OTHER ->
           /\ regOut' = [RegRaised("get_all_bulb_statuses", at, NoAddr, "RuntimeError")
                           EXCEPT !.records = lp.records]
           /\ outcome' = IF at = "call" THEN Handed ELSE outcome
           /\ awaiting' = {w \in awaiting : ~Woken(w)}
           /\ UNCHANGED calls

\* get_all_bulb_statuses() up to its first await
GetAllBulbStatuses ==
    /\ Idle
    /\ StatusesStep(StatusLoop(connected_bulbs, NewIter(connected_bulbs), <<>>), "call")
    /\ UNCHANGED <<socket, running, last_status, openEps>>
    /\ UNCHANGED <<config, connected_bulbs, probes, held, hex_color, default_bulb>>

\* get_all_bulb_statuses after "await client.get_status()": the status is
\* appended under the address of the client's config and the loop goes on;
\* an error that "except Exception" does not catch leaves the coroutine
GetAllBulbStatusesResume(w) ==
    /\ Woken(w)
    /\ w.kind = "statuses"
    /\ IF outcome.kind = "returned"
       THEN StatusesStep(
                StatusLoop(connected_bulbs, w.it,
                           Append(w.records,
                                  StatusRecord(config[w.client], last_status[w.client]))),
                "resume")
       ELSE /\ regOut' = [RegRaised("get_all_bulb_statuses", "resume", w.addr, outcome.exc)
                            EXCEPT !.records = w.records]
            /\ awaiting' = awaiting \ {w}
            /\ UNCHANGED <<calls, outcome>>
    /\ UNCHANGED <<socket, running, last_status, openEps>>
    /\ UNCHANGED <<config, connected_bulbs, probes, held, hex_color, default_bulb>>

\* the probe of one candidate address: where _check_bulb_at_address stands
\* ("todo": not started, "running", "none": it returned None, "found": it
\* returned a DiscoveredBulb), the reply of the device to the ping and to
\* get_status that reached the endpoint in time, and whether the ping
\* returned a success response
NewProbe == [state |-> "todo", ping |-> "none", pingok |-> FALSE, status |-> "none"]

\* discover_bulbs(): the local address is found, one probe per candidate is
\* handed to asyncio.gather
DiscoverBulbs ==
    /\ Idle
    /\ probes = <<>>
    /\ UNCHANGED <<held, hex_color, default_bulb>>
    /\ probes' = [a \in Addrs |-> NewProbe]
    /\ UNCHANGED <<socket, running, last_status, calls, openEps, outcome>>
    /\ UNCHANGED <<config, connected_bulbs, awaiting, regOut>>

\* range(a, b)
Range(a, b) == [i \in 1..(IF b > a THEN b - a ELSE 0) |-> a + i - 1]

\* the address of a candidate: host h of the local network, port p
AddrOf(h, p) == h * PortSpan + p

\* a scan over every host number of the network, 0 and the last included
TaskListAllHosts(port_range) ==
    LET hosts == Range(0, LastHost + 1)
        ports == Range(port_range[1], port_range[2] + 1)
    IN  [k \in 1..(Len(hosts) * Len(ports)) |->
            AddrOf(hosts[((k - 1) \div Len(ports)) + 1], ports[((k - 1) % Len(ports)) + 1])]

\* the list "tasks": for host in range(1, 255), for port in
\* range(port_range[0], port_range[1] + 1), one _check_bulb_at_address
TaskList(port_range) ==
    LET hosts == Range(FirstHost, LastHost)
        ports == Range(port_range[1], port_range[2] + 1)
    IN  [k \in 1..(Len(hosts) * Len(ports)) |->
            AddrOf(hosts[((k - 1) \div Len(ports)) + 1], ports[((k - 1) % Len(ports)) + 1])]

\* discover_bulbs(timeout, port_range): the local address is found and every
\* task of the list is handed to asyncio.gather; with no task gather returns
\* the empty list
Scan(port_range) ==
    LET tasks == TaskList(port_range) IN
    /\ Idle
    /\ probes = <<>>
    /\ IF tasks = <<>>
       THEN /\ regOut' = RegReturned("discover_bulbs", "resume", NoAddr, NoClient)
            /\ outcome' = Handed
            /\ UNCHANGED probes
       ELSE /\ probes' = [a \in {tasks[k] : k \in 1..Len(tasks)} |-> NewProbe]
            /\ UNCHANGED <<regOut, outcome>>
    /\ UNCHANGED <<socket, running, last_status, calls, openEps>>
    /\ UNCHANGED <<config, connected_bulbs, awaiting, held, hex_color, default_bulb>>

\* discover_bulbs() when _get_local_ip() returns None: the empty list
DiscoverBulbsNoLocalIp ==
    /\ Idle
    /\ probes = <<>>
    /\ regOut' = RegReturned("discover_bulbs", "call", NoAddr, NoClient)
    /\ outcome' = Handed
    /\ UNCHANGED <<socket, running, last_status, calls, openEps>>
    /\ UNCHANGED <<config, connected_bulbs, awaiting, probes, held, hex_color, default_bulb>>

\* _check_bulb_at_address up to its first await: a transient client and its
\* connect()
ProbeStart(a) ==
    /\ probes # <<>>
    /\ probes[a].state = "todo"
    /\ \E c \in DOMAIN config : config[c] = NoAddr
    /\ config' = [config EXCEPT ![NewClient] = a]
    /\ Connect(NewClient)
    /\ awaiting' = awaiting \cup {Waiter(generate_command_id, "probe_connect", a, NewClient)}
    /\ UNCHANGED <<held, hex_color, default_bulb>>
    /\ probes' = [probes EXCEPT ![a].state = "running"]
    /\ UNCHANGED <<connected_bulbs, regOut>>

\* _check_bulb_at_address when socket.socket() raises in connect(): "except
\* Exception: pass", None
ProbeStartSocketError(a) ==
    /\ probes # <<>>
    /\ probes[a].state = "todo"
    /\ \E c \in DOMAIN config : config[c] = NoAddr
    /\ config' = [config EXCEPT ![NewClient] = a]
    /\ ConnectSocketError(NewClient)
    /\ UNCHANGED <<held, hex_color, default_bulb>>
    /\ probes' = [probes EXCEPT ![a].state = "none"]
    /\ UNCHANGED <<connected_bulbs, awaiting, regOut>>

\* _check_bulb_at_address after "await client.connect()": connect returned,
\* get_status() runs up to its first await
ProbeConnected(w) ==
    /\ Woken(w)
    /\ w.kind = "probe_connect"
    /\ outcome.kind = "returned"
    /\ BeginCommand(w.client, "get_status", NoId, socket[w.client], running[w.client])
    /\ awaiting' = (awaiting \ {w}) \cup
           {Waiter(generate_command_id, "probe_status", w.addr, w.client)}
    /\ UNCHANGED <<held, hex_color, default_bulb>>
    /\ probes' = [probes EXCEPT ![w.addr].ping = outcome.reply,
                                ![w.addr].pingok = outcome.resp.success]
    /\ UNCHANGED <<socket, running, last_status, openEps>>
    /\ UNCHANGED <<config, connected_bulbs, regOut>>

\* a probe that reports its candidate whatever the status says
ProbeResultAny(st) == "found"

\* the value _check_bulb_at_address returns for the status get_status returned
ProbeResult(st) == IF st.connected THEN "found" ELSE "none"

\* _check_bulb_at_address after "await client.get_status()": the client is
\* closed and the candidate is a discovery if the status says connected
ProbeStatus(w) ==
    /\ Woken(w)
    /\ w.kind = "probe_status"
    /\ outcome.kind = "returned"
    /\ CloseBody(w.client)
    /\ awaiting' = awaiting \ {w}
    /\ UNCHANGED <<held, hex_color, default_bulb>>
    /\ probes' = [probes EXCEPT ![w.addr].state = ProbeResult(last_status[w.client]),
                                ![w.addr].status = outcome.reply]
    /\ UNCHANGED <<config, connected_bulbs, regOut>>

\* the same when close() raises: "except Exception: pass", None
ProbeStatusCloseError(w) ==
    /\ Woken(w)
    /\ w.kind = "probe_status"
    /\ outcome.kind = "returned"
    /\ CloseErrorBody(w.client)
    /\ awaiting' = awaiting \ {w}
    /\ UNCHANGED <<held, hex_color, default_bulb>>
    /\ probes' = [probes EXCEPT ![w.addr].state = "none",
                                ![w.addr].status = outcome.reply]
    /\ UNCHANGED <<config, connected_bulbs, regOut>>

\* discover_bulbs() after "await asyncio.gather(...)": the candidates whose
\* probe returned a DiscoveredBulb
DiscoverBulbsReturn ==
    /\ Idle
    /\ probes # <<>>
    /\ \A a \in DOMAIN probes : probes[a].state \in {"none", "found"}
    /\ regOut' = [RegReturned("discover_bulbs", "resume", NoAddr, NoClient)
                    EXCEPT !.found = {a \in DOMAIN probes : probes[a].state = "found"},
                           !.pinged = {a \in DOMAIN probes : probes[a].pingok},
                           !.answered = {a \in DOMAIN probes : /\ probes[a].ping = "ok"
                                                              /\ probes[a].status = "ok"}]
    /\ outcome' = Handed
    /\ UNCHANGED <<held, hex_color, default_bulb>>
    /\ probes' = <<>>
    /\ UNCHANGED <<socket, running, last_status, calls, openEps>>
    /\ UNCHANGED <<config, connected_bulbs, awaiting>>

(* ---------------------------- device-level methods ---------------------- *)
\* the coroutine of a method of the client suspended in its send_command:
\* the id of the call it awaits, the method, the client and the argument the
\* method was called with
Suspended(id, op, c, arg) ==
    [id |-> id, kind |-> op, addr |-> NoAddr, client |-> c, it |-> NoIter,
     records |-> <<>>, arg |-> arg]

\* "response = await self.send_command(command)" in method op of client c, up
\* to the first await of send_command
CallCommand(c, op, command, arg) ==
    /\ BeginCommand(c, command, NoId, socket[c], running[c])
    /\ awaiting' = IF NotConnected(c) THEN awaiting
                   ELSE awaiting \cup {Suspended(generate_command_id, op, c, arg)}
    /\ UNCHANGED <<socket, running, last_status, openEps>>
    /\ UNCHANGED <<config, connected_bulbs, probes, regOut, held, hex_color, default_bulb>>

\* a method raises ValueError before it builds a command
Rejected(c, op) ==
    /\ outcome' = RaisedAtOnce(c, op, "ValueError")
    /\ UNCHANGED <<socket, running, last_status, calls, openEps>>
    /\ UNCHANGED <<config, connected_bulbs, awaiting, probes, regOut, held, hex_color, default_bulb>>

\* turn_on()
TurnOn(c) == Idle /\ CallCommand(c, "turn_on", "set_power", TRUE)

\* turn_off()
TurnOff(c) == Idle /\ CallCommand(c, "turn_off", "set_power", FALSE)

\* "if not 0 <= brightness <= 100"
BrightnessOutOfRange(b) == ~(0 <= b /\ b <= 100)

\* a set_brightness that sends whatever it is given
SetBrightnessNoCheck(c, b) ==
    /\ Idle
    /\ CallCommand(c, "set_brightness", "set_brightness", b)

\* set_brightness(brightness)
SetBrightness(c, b) ==
    /\ Idle
    /\ IF BrightnessOutOfRange(b) THEN Rejected(c, "set_brightness")
       ELSE CallCommand(c, "set_brightness", "set_brightness", b)

\* "if not all(0 <= val <= 255 for val in [r, g, b])"
ChannelOutOfRange(rgb) == \E i \in 1..3 : ~(0 <= rgb[i] /\ rgb[i] <= 255)

\* the body of set_color_rgb(r, g, b), called as op
SetColorRgbBody(c, op, rgb) ==
    IF ChannelOutOfRange(rgb) THEN Rejected(c, op)
    ELSE CallCommand(c, op, "set_color", rgb)

\* set_color_rgb(r, g, b)
SetColorRgb(c, rgb) == Idle /\ SetColorRgbBody(c, "set_color_rgb", rgb)

\* ---- set_color_hex: strings are sequences of one-character strings ----
LowerDigits ==
    <<"0", "1", "2", "3", "4", "5", "6", "7", "8", "9", "a", "b", "c", "d", "e", "f">>
UpperDigits ==
    <<"0", "1", "2", "3", "4", "5", "6", "7", "8", "9", "A", "B", "C", "D", "E", "F">>
IsHexDigit(ch) == \E i \in 1..16 : LowerDigits[i] = ch \/ UpperDigits[i] = ch
HexValue(ch) == (CHOOSE i \in 1..16 : LowerDigits[i] = ch \/ UpperDigits[i] = ch) - 1

\* the characters str.strip() removes (those of them an ASCII caller types)
Whitespace == {" ", "\t", "\n", "\r"}

\* hex_color.lstrip('#'): every leading '#' goes
RECURSIVE lstrip(_, _)
lstrip(s, ch) == IF s # <<>> /\ Head(s) = ch THEN lstrip(Tail(s), ch) ELSE s

RECURSIVE StripLeft(_)
StripLeft(s) == IF s # <<>> /\ Head(s) \in Whitespace THEN StripLeft(Tail(s)) ELSE s
RECURSIVE StripRight(_)
StripRight(s) ==
    IF s # <<>> /\ s[Len(s)] \in Whitespace THEN StripRight(SubSeq(s, 1, Len(s) - 1)) ELSE s

\* the digits int() accepts after sign and prefix: hex digits, with single
\* underscores between them (and after the prefix)
DigitsOk(d, prefixed) ==
    /\ d # <<>>
    /\ \A i \in 1..Len(d) : IsHexDigit(d[i]) \/ d[i] = "_"
    /\ d[Len(d)] # "_"
    /\ d[1] # "_" \/ prefixed
    /\ \A i \in 1..(Len(d) - 1) : ~(d[i] = "_" /\ d[i + 1] = "_")

RECURSIVE HexNumber(_)
HexNumber(d) ==
    IF d = <<>> THEN 0
    ELSE LET front == SubSeq(d, 1, Len(d) - 1)
             last == d[Len(d)]
         IN IF last = "_" THEN HexNumber(front) ELSE 16 * HexNumber(front) + HexValue(last)

\* int(t, 16): surrounding whitespace is dropped, then an optional sign, an
\* optional 0x, and the digits; anything else is a ValueError
Int16(t) ==
    LET s == StripRight(StripLeft(t))
        signed == s # <<>> /\ s[1] \in {"+", "-"}
        u == IF signed THEN Tail(s) ELSE s
        prefixed == Len(u) >= 2 /\ u[1] = "0" /\ u[2] \in {"x", "X"}
        d == IF prefixed THEN SubSeq(u, 3, Len(u)) ELSE u
    IN IF DigitsOk(d, prefixed)
       THEN [ok |-> TRUE, value |-> IF s[1] = "-" THEN 0 - HexNumber(d) ELSE HexNumber(d)]
       ELSE [ok |-> FALSE, value |-> 0]

\* a decoder that takes the pairs in the order blue, green, red
ParseHexReversed(hex) ==
    LET h == lstrip(hex, "#")
        r == Int16(SubSeq(h, 5, 6))
        g == Int16(SubSeq(h, 3, 4))
        b == Int16(SubSeq(h, 1, 2))
    IN IF Len(h) # 6 THEN [ok |-> FALSE, rgb |-> <<>>]
       ELSE IF r.ok /\ g.ok /\ b.ok THEN [ok |-> TRUE, rgb |-> <<r.value, g.value, b.value>>]
       ELSE [ok |-> FALSE, rgb |-> <<>>]

\* what set_color_hex makes of its argument before it calls set_color_rgb:
\* not ok stands for one of its two ValueErrors
ParseHex(hex) ==
    LET h == lstrip(hex, "#")
        r == Int16(SubSeq(h, 1, 2))
        g == Int16(SubSeq(h, 3, 4))
        b == Int16(SubSeq(h, 5, 6))
    IN IF Len(h) # 6 THEN [ok |-> FALSE, rgb |-> <<>>]
       ELSE IF r.ok /\ g.ok /\ b.ok THEN [ok |-> TRUE, rgb |-> <<r.value, g.value, b.value>>]
       ELSE [ok |-> FALSE, rgb |-> <<>>]

\* set_color_hex(hex_color): the ValueError of set_color_rgb's range test is
\* caught and raised again as a ValueError; a ConnectionError passes
SetColorHex(c) ==
    /\ Idle
    /\ IF ParseHex(hex_color).ok
       THEN SetColorRgbBody(c, "set_color_hex", ParseHex(hex_color).rgb)
       ELSE Rejected(c, "set_color_hex")

\* a method that writes the snapshot whatever the response says
DeviceUpdateAlways(st, op, arg, resp) ==
    CASE op \in {"turn_on", "turn_off"} -> [st EXCEPT !.power = arg]
      [] op = "set_brightness" -> [st EXCEPT !.brightness = arg]
      [] op \in {"set_color_rgb", "set_color_hex"} -> [st EXCEPT !.color = arg]
      [] OTHER -> st

\* what the method does with the response after "await self.send_command":
\* the snapshot is written only "if response.success"
DeviceUpdate(st, op, arg, resp) ==
    CASE ~resp.success -> st
      [] op \in {"turn_on", "turn_off"} -> [st EXCEPT !.power = arg]
      [] op = "set_brightness" -> [st EXCEPT !.brightness = arg]
      [] op \in {"set_color_rgb", "set_color_hex"} -> [st EXCEPT !.color = arg]
      [] OTHER -> st

\* the method goes on after its send_command ended: with a response it
\* updates the snapshot and returns response.success; an error that left
\* send_command leaves the method too
MethodResume(w) ==
    /\ Woken(w)
    /\ w.kind \in {"turn_on", "turn_off", "set_brightness", "set_color_rgb",
                   "set_color_hex"}
    /\ IF outcome.kind = "returned"
       THEN /\ last_status' = [last_status EXCEPT ![w.client] =
                                  DeviceUpdate(@, w.kind, w.arg, outcome.resp)]
            /\ regOut' = [RegReturned(w.kind, "resume", NoAddr, w.client)
                            EXCEPT !.value = outcome.resp.success]
       ELSE /\ regOut' = RegRaised(w.kind, "resume", NoAddr, outcome.exc)
            /\ UNCHANGED last_status
    /\ held' = IF /\ held.of = w.client /\ held.shares_color
                  /\ outcome.kind = "returned" /\ outcome.resp.success
                  /\ w.kind \in {"set_color_rgb", "set_color_hex"}
               THEN Unshare(held, last_status)
               ELSE held
    /\ awaiting' = awaiting \ {w}
    /\ UNCHANGED <<socket, running, calls, openEps, outcome>>
    /\ UNCHANGED <<config, connected_bulbs, probes, hex_color, default_bulb>>

\* a copy that has a color dict of its own, as copy.deepcopy would make it
DeepCopy(c) ==
    [of |-> c, power |-> last_status[c].power,
     brightness |-> last_status[c].brightness,
     connected |-> last_status[c].connected, shares_color |-> FALSE,
     own_color |-> last_status[c].color]

\* self.last_status.copy(): a new dict with the values of the snapshot; the
\* dict under "color" is not copied, the copy refers to the same object
Copy(c) ==
    [of |-> c, power |-> last_status[c].power,
     brightness |-> last_status[c].brightness,
     connected |-> last_status[c].connected, shares_color |-> TRUE,
     own_color |-> <<>>]

\* get_last_status(): no await, no network call
GetLastStatus(c) ==
    /\ Idle
    /\ held' = Copy(c)
    /\ regOut' = RegReturned("get_last_status", "return", NoAddr, c)
    /\ UNCHANGED <<socket, running, last_status, calls, openEps, outcome>>
    /\ UNCHANGED <<config, connected_bulbs, awaiting, probes, hex_color, default_bulb>>

\* the caller assigns to a key of the dict it was handed
CallerSetsPower(v) ==
    /\ Idle
    /\ held.of # NoClient
    /\ held' = [held EXCEPT !.power = v]
    /\ UNCHANGED <<socket, running, last_status, calls, openEps, outcome>>
    /\ UNCHANGED <<config, connected_bulbs, awaiting, probes, regOut, hex_color, default_bulb>>

\* the caller assigns to a channel of the dict under "color" of the dict it
\* was handed: status["color"]["r"] = v
CallerSetsChannel(i, v) ==
    /\ Idle
    /\ held.of # NoClient
    /\ IF held.shares_color
       THEN /\ last_status' = [last_status EXCEPT ![held.of].color[i] = v]
            /\ UNCHANGED held
       ELSE /\ held' = [held EXCEPT !.own_color[i] = v]
            /\ UNCHANGED last_status
    /\ UNCHANGED <<socket, running, calls, openEps, outcome>>
    /\ UNCHANGED <<config, connected_bulbs, awaiting, probes, regOut, hex_color, default_bulb>>

\* get_status(), up to the first await of send_command
GetStatus(c) == Idle /\ CallCommand(c, "get_status", "get_status", FALSE)

\* get_status() after its send_command ended: the update of the snapshot is
\* AfterResponse, the caller is handed a copy
GetStatusResume(w) ==
    /\ Woken(w)
    /\ w.kind = "get_status"
    /\ IF outcome.kind = "returned"
       THEN /\ held' = Copy(w.client)
            /\ regOut' = RegReturned("get_status", "resume", NoAddr, w.client)
       ELSE /\ regOut' = RegRaised("get_status", "resume", NoAddr, outcome.exc)
            /\ UNCHANGED held
    /\ awaiting' = awaiting \ {w}
    /\ UNCHANGED <<socket, running, last_status, calls, openEps, outcome>>
    /\ UNCHANGED <<config, connected_bulbs, probes, hex_color, default_bulb>>

\* the caller of BulbDiscovery goes on with what it was handed; a coroutine
\* that awaits the call that ended goes on first
RegResume ==
    /\ ~\E w \in awaiting : Woken(w)
    /\ Resume
    /\ regOut' = NoRegOut
    /\ UNCHANGED <<config, connected_bulbs, awaiting, probes, held, hex_color, default_bulb>>

\* a step of a client that is used directly, not through BulbDiscovery
Alone(A) == A /\ UNCHANGED regVars /\ UNCHANGED <<hex_color, default_bulb>> /\ KeepCopy

\* One client used directly.  (The replies of the device are success
\* replies here; a reply that reports a failure takes the same way through
\* the client: no code reads either.)
Next ==
    \/ \E c \in Clients : Alone(Connect(c))
    \/ \E c \in Clients : Alone(ConnectSocketError(c))
    \/ \E c \in Clients : \E cid \in CallerIds \cup {NoId} : Alone(SendCommand(c, cid))
    \/ \E r \in InFlight : Alone(SendtoDone(r))
    \/ \E r \in InFlight : Alone(SendtoFail(r))
    \/ Alone(Tick)
    \/ \E r \in InFlight : Alone(TimeoutFire(r))
    \/ \E r \in InFlight : Alone(CancelledWake(r))
    \/ \E c \in Clients : Alone(Close(c))
    \/ \E r \in InFlight : Alone(DeviceReply(r, TRUE))
    \/ Alone(Resume)

Spec == Init /\ [][Next]_vars

\* The steps of BulbDiscovery and of the callers that hold a client of the
\* registry.  (The replies of the devices are left out here: no code reads
\* the socket.)
RegNext ==
    \/ \E a \in Addrs : ConnectToBulb(a)
    \/ \E a \in Addrs : ConnectToBulbSocketError(a)
    \/ \E w \in awaiting : ConnectToBulbResume(w)
    \/ \E a \in Addrs : DisconnectBulb(a)
    \/ \E a \in Addrs : DisconnectBulbCloseError(a)
    \/ \E F \in SUBSET Objects : CloseAllConnections(F)
    \/ \E r \in InFlight : Alone(SendtoDone(r))
    \/ \E r \in InFlight : Alone(SendtoFail(r))
    \/ Alone(Tick)
    \/ \E r \in InFlight : Alone(TimeoutFire(r))
    \/ RegResume

\* the registry of BulbDiscovery with the clients it holds
RegSpec == RegInit /\ [][RegNext]_vars

\* the same with get_all_bulb_statuses, whose calls a close can cancel
StatusNext ==
    \/ GetAllBulbStatuses
    \/ \E w \in awaiting : GetAllBulbStatusesResume(w)
    \/ \E r \in InFlight : Alone(CancelledWake(r))
    \/ RegNext

\* the registry while get_all_bulb_statuses runs
StatusSpec == RegInit /\ [][StatusNext]_vars

\* the steps of one discover_bulbs call and of its probes
DiscNext ==
    \/ DiscoverBulbs
    \/ DiscoverBulbsNoLocalIp
    \/ \E a \in Addrs : ProbeStart(a)
    \/ \E a \in Addrs : ProbeStartSocketError(a)
    \/ \E w \in awaiting : ProbeConnected(w)
    \/ \E w \in awaiting : ProbeStatus(w)
    \/ \E w \in awaiting : ProbeStatusCloseError(w)
    \/ DiscoverBulbsReturn
    \/ \E r \in InFlight : Alone(SendtoDone(r))
    \/ \E r \in InFlight : Alone(SendtoFail(r))
    \/ Alone(Tick)
    \/ \E r \in InFlight : Alone(TimeoutFire(r))
    \/ \E r \in InFlight : Alone(DeviceReply(r, TRUE))
    \/ RegResume

\* one scan of discover_bulbs with the devices answering, with success, or
\* not answering
DiscSpec == RegInit /\ [][DiscNext]_vars

\* the data a device may put into a success reply to get_status: nothing,
\* a connected field that is false, or fields of the status
ReplyData ==
    {NoData, [connected |-> FALSE], [power |-> TRUE, brightness |-> 40]}

\* the arguments callers pass: in range, at the ends of the range, and
\* outside it
BrightnessInputs == {-1, 0, 100, 101}
ColorInputs == {<<0, 0, 0>>, <<255, 128, 0>>, <<256, 0, 0>>, <<0, -1, 0>>}

\* a caller that awaits each method before it calls the next one
Sequential(A) == awaiting = {} /\ A

\* the steps of one client whose device-level methods are called
DevNext ==
    \/ \E c \in Clients : Alone(Connect(c))
    \/ \E c \in Clients : Sequential(TurnOn(c))
    \/ \E c \in Clients : Sequential(TurnOff(c))
    \/ \E c \in Clients : \E b \in BrightnessInputs : Sequential(SetBrightness(c, b))
    \/ \E c \in Clients : \E rgb \in ColorInputs : Sequential(SetColorRgb(c, rgb))
    \/ \E c \in Clients : Sequential(GetStatus(c))
    \/ \E w \in awaiting : MethodResume(w)
    \/ \E w \in awaiting : GetStatusResume(w)
    \/ \E r \in InFlight : Alone(SendtoDone(r))
    \/ \E r \in InFlight : Alone(SendtoFail(r))
    \/ Alone(Tick)
    \/ \E r \in InFlight : Alone(TimeoutFire(r))
    \/ \E r \in InFlight : \E ok \in BOOLEAN : Alone(DeviceReply(r, ok))
    \/ RegResume

\* one client under its device-level methods, with a device that answers
\* with success, with failure, or not at all
DevSpec == Init /\ [][DevNext]_vars

\* what the caller of get_status and get_last_status writes into the dict it
\* was handed
ChannelWrites == {0, 300}

\* the steps of one client whose caller asks for the snapshot and writes
\* into what it is handed
CopyNext ==
    \/ \E c \in Clients : Alone(Connect(c))
    \/ \E c \in Clients : GetLastStatus(c)
    \/ \E c \in Clients : Sequential(GetStatus(c))
    \/ \E w \in awaiting : GetStatusResume(w)
    \/ \E v \in BOOLEAN : CallerSetsPower(v)
    \/ \E i \in 1..3 : \E v \in ChannelWrites : CallerSetsChannel(i, v)
    \/ \E r \in InFlight : Alone(SendtoDone(r))
    \/ \E r \in InFlight : Alone(SendtoFail(r))
    \/ Alone(Tick)
    \/ \E r \in InFlight : Alone(TimeoutFire(r))
    \/ \E r \in InFlight : Alone(DeviceReply(r, TRUE))
    \/ RegResume

CopySpec == Init /\ [][CopyNext]_vars

\* ---- the strings callers pass to set_color_hex ----
\* every string of at most MaxLen characters over Chars: a '#', two hex
\* digits, a letter that is no hex digit, a sign
Chars == {"#", "0", "F", "g", "+"}
Strings == UNION {[1..k -> Chars] : k \in 0..MaxLen}

\* r, g, b as two lower-case hex digits each
EncodeChannel(v) == <<LowerDigits[(v \div 16) + 1], LowerDigits[(v % 16) + 1]>>
Encode(rgb) == EncodeChannel(rgb[1]) \o EncodeChannel(rgb[2]) \o EncodeChannel(rgb[3])

\* triples in which every channel value 0..255 occurs in every position
Triples == {<<v, 255 - v, (v * 7) % 256>> : v \in 0..255}
               \cup {<<(v * 7) % 256, v, 255 - v>> : v \in 0..255}

\* further arguments: with blanks, with a minus sign, with digits of both
\* cases, with tabs, underscores and an 0x, longer than the enumerated strings
MoreStrings ==
    {<<" ", "a", " ", "a", " ", "a">>, <<"a", " ", "a", " ", "a", " ">>,
     <<"#", "+", "a", "+", "a", "+", "a">>, <<"#", "#", "a", "0", "0", "0", "0", "a">>,
     <<"#", "0", "0", "0", "0", "0", "g">>, <<"#", "0", "0", " ", "0", "0", "0", "0">>,
     <<"-", "0", "-", "0", "-", "0">>, <<"-", "f", "0", "0", "0", "0">>,
     <<"#", "1", "2", "A", "B", "e", "9">>, <<"\t", "1", "2", "\n", "3", "4">>,
     <<"1", "_", "2", "3", "4", "5">>, <<"0", "x", "1", "2", "3", "4">>,
     <<"#", "#", "#", "1", "2", "3", "4", "5", "6">>,
     <<"1", "2", "3", "4", "5", "6", "7", "8">>}

HexInputs ==
    Strings \cup {Encode(t) : t \in Triples} \cup {<<"#">> \o Encode(t) : t \in Triples}
            \cup MoreStrings

\* a client after connect() has returned, and the string its caller holds
HexInit ==
    /\ socket = [c \in Clients |-> 1]
    /\ running = [c \in Clients |-> TRUE]
    /\ last_status = [c \in Clients |-> [InitialStatus EXCEPT !.connected = TRUE]]
    /\ calls = EmptyBag
    /\ openEps = {1}
    /\ outcome = NoOutcome
    /\ config = [c \in Clients |-> 1]
    /\ connected_bulbs = <<>>
    /\ awaiting = {}
    /\ probes = <<>>
    /\ regOut = NoRegOut
    /\ held = NoCopy
    /\ hex_color \in HexInputs
    /\ default_bulb = NoClient

\* the steps of a connected client whose caller sets colors
HexNext ==
    \/ \E c \in Clients : Sequential(SetColorHex(c))
    \/ \E c \in Clients : \E rgb \in ColorInputs : Sequential(SetColorRgb(c, rgb))
    \/ \E w \in awaiting : MethodResume(w)
    \/ \E r \in InFlight : Alone(SendtoDone(r))
    \/ \E r \in InFlight : Alone(SendtoFail(r))
    \/ Alone(Tick)
    \/ \E r \in InFlight : Alone(TimeoutFire(r))
    \/ \E r \in InFlight : Alone(DeviceReply(r, TRUE))
    \/ RegResume

HexSpec == HexInit /\ [][HexNext]_vars

\* ---- replies as early as the device can send them ----
\* the executor thread has sent the datagram and the device answers before
\* the coroutine is resumed from "await loop.run_in_executor(...)"
ReplyWhileSending(r) ==
    /\ Idle
    /\ r.pc = "sending"
    /\ r.fut = "pending"
    /\ r.reply = "none"
    /\ r.ep = socket[r.client]
    /\ calls' = (calls (-) SetToBag({r})) (+) SetToBag({[r EXCEPT !.reply = "ok"]})
    /\ outcome' = NoOutcome
    /\ UNCHANGED <<socket, running, last_status, openEps>>

\* one client used directly, with a device that may answer at once
ReplyNext ==
    \/ \E c \in Clients : Alone(Connect(c))
    \/ \E c \in Clients : \E cid \in CallerIds \cup {NoId} : Alone(SendCommand(c, cid))
    \/ \E r \in InFlight : Alone(ReplyWhileSending(r))
    \/ \E r \in InFlight : Alone(SendtoDone(r))
    \/ Alone(Tick)
    \/ \E r \in InFlight : Alone(TimeoutFire(r))
    \/ \E r \in InFlight : Alone(CancelledWake(r))
    \/ \E c \in Clients : Alone(Close(c))
    \/ \E r \in InFlight : Alone(DeviceReply(r, TRUE))
    \/ Alone(Resume)

ReplySpec == Init /\ [][ReplyNext]_vars

\* ---- clients that connect more than once ----
\* an endpoint no client refers to: "self.socket = socket.socket(...)" in a
\* repeated connect() dropped the reference and nothing closed the socket
Orphans == {e \in openEps : \A c \in DOMAIN socket : socket[c] # e}

\* the interpreter finalizes a socket object nothing refers to, at a time of
\* its own choice or never; the sendto an executor thread still runs holds
\* the object
SocketCollected(e) ==
    /\ Idle
    /\ e \in Orphans
    /\ \A r \in InFlight : r.pc = "sending" => r.ep # e
    /\ openEps' = openEps \ {e}
    /\ UNCHANGED <<socket, running, last_status, calls, outcome>>

\* clients used directly: connect(), also on a client that is connected,
\* and close(), with the steps of the pings
EndpointNext ==
    \/ \E c \in Objects : Alone(Connect(c))
    \/ \E c \in Objects : Alone(ConnectSocketError(c))
    \/ \E r \in InFlight : Alone(SendtoDone(r))
    \/ Alone(Tick)
    \/ \E r \in InFlight : Alone(TimeoutFire(r))
    \/ \E r \in InFlight : Alone(CancelledWake(r))
    \/ \E c \in Objects : Alone(Close(c))
    \/ \E c \in Objects : Alone(CloseSocketError(c))
    \/ \E e \in Endpoints : Alone(SocketCollected(e))
    \/ Alone(Resume)

EndpointSpec == RegInit /\ [][EndpointNext]_vars

\* ---- the tools of the server ----
\* the key of DEFAULT_BULB_IP and DEFAULT_BULB_PORT
DefaultAddr == 1

\* initialize_default_bulb() up to its await: discovery.connect_to_bulb for
\* the default address.  No code of the repository calls it: main() defines
\* init_and_run around it and runs app.run() without it.
InitializeDefaultBulb ==
    IF HasKey(connected_bulbs, DefaultAddr)
    THEN /\ Idle
         /\ default_bulb' = get_bulb(connected_bulbs, DefaultAddr)
         /\ regOut' = RegReturned("initialize_default_bulb", "call", DefaultAddr,
                                  get_bulb(connected_bulbs, DefaultAddr))
         /\ outcome' = Handed
         /\ UNCHANGED <<socket, running, last_status, calls, openEps>>
         /\ UNCHANGED <<config, connected_bulbs, awaiting, probes, held, hex_color>>
    ELSE /\ \E c \in DOMAIN config : config[c] = NoAddr
         /\ config' = [config EXCEPT ![NewClient] = DefaultAddr]
         /\ Connect(NewClient)
         /\ awaiting' = awaiting \cup
                {Waiter(generate_command_id, "initialize_default_bulb", DefaultAddr,
                        NewClient)}
         /\ UNCHANGED <<connected_bulbs, probes, regOut, held, hex_color, default_bulb>>

\* initialize_default_bulb() after connect(): connect_to_bulb registers and
\* returns the client, which becomes default_bulb; "except Exception" logs
\* what connect_to_bulb raised
InitializeDefaultBulbResume(w) ==
    /\ Woken(w)
    /\ w.kind = "initialize_default_bulb"
    /\ IF outcome.kind = "returned"
       THEN /\ connected_bulbs' = SetItem(connected_bulbs, w.addr, w.client)
            /\ default_bulb' = w.client
            /\ regOut' = RegReturned("initialize_default_bulb", "resume", w.addr, w.client)
       ELSE /\ regOut' = RegReturned("initialize_default_bulb", "resume", w.addr, NoClient)
            /\ UNCHANGED <<connected_bulbs, default_bulb>>
    /\ awaiting' = awaiting \ {w}
    /\ UNCHANGED <<socket, running, last_status, calls, openEps, outcome>>
    /\ UNCHANGED <<config, probes, held, hex_color>>

\* ping()
Ping(c) == Idle /\ CallCommand(c, "ping", "ping", FALSE)

\* ping() after its send_command ended: response.success
PingResume(w) ==
    /\ Woken(w)
    /\ w.kind = "ping"
    /\ regOut' = IF outcome.kind = "returned"
                 THEN [RegReturned("ping", "resume", NoAddr, w.client)
                         EXCEPT !.value = outcome.resp.success]
                 ELSE RegRaised("ping", "resume", NoAddr, outcome.exc)
    /\ awaiting' = awaiting \ {w}
    /\ UNCHANGED <<socket, running, last_status, calls, openEps, outcome>>
    /\ UNCHANGED <<config, connected_bulbs, probes, held, hex_color, default_bulb>>

\* the tools that take an optional address
Tools == {"turn_on_bulb", "turn_off_bulb", "set_bulb_brightness", "set_bulb_color",
          "get_bulb_status", "ping_bulb"}

\* the addresses the tools are called with: none, the default bulb's
ToolAddrs == {NoAddr, DefaultAddr}

\* a tool called with address a, or with none (NoAddr), up to its first
\* await.  get_bulb(ip, port) returns the client the registry holds for the
\* address, or default_bulb without one, and raises ValueError when there is
\* none: the tool's "except Exception" returns {"success": False, "error":
\* str(e)}.  Then the tool awaits the client's method.
ToolCall(tool, a) ==
    LET bulb == IF a # NoAddr THEN get_bulb(connected_bulbs, a) ELSE default_bulb IN
    /\ Idle
    /\ IF bulb = NoClient
       THEN /\ regOut' = [RegReturned(tool, "call", a, NoClient)
                            EXCEPT !.value = FALSE,
                                   !.exc = IF a # NoAddr THEN "No connection to bulb"
                                           ELSE "No default bulb connection available"]
            /\ outcome' = Handed
            /\ UNCHANGED <<socket, running, last_status, calls, openEps>>
            /\ UNCHANGED <<config, connected_bulbs, awaiting, probes, held, hex_color,
                           default_bulb>>
       ELSE CASE tool = "turn_on_bulb" -> TurnOn(bulb)
              [] tool = "turn_off_bulb" -> TurnOff(bulb)
              [] tool = "set_bulb_brightness" ->
                    \E b \in BrightnessInputs : SetBrightness(bulb, b)
              [] tool = "set_bulb_color" -> SetColorHex(bulb)
              [] tool = "get_bulb_status" -> GetStatus(bulb)
              [] tool = "ping_bulb" -> Ping(bulb)

\* the server after main() started it: the connect_to_bulb tool for the
\* default address and the tools that take an optional address, one request
\* at a time, with a device that answers
ServerNext ==
    \/ Sequential(ConnectToBulb(DefaultAddr))
    \/ \E w \in awaiting : ConnectToBulbResume(w)
    \/ \E tool \in Tools : \E a \in ToolAddrs : Sequential(ToolCall(tool, a))
    \/ \E w \in awaiting : MethodResume(w)
    \/ \E w \in awaiting : GetStatusResume(w)
    \/ \E w \in awaiting : PingResume(w)
    \/ \E r \in InFlight : Alone(SendtoDone(r))
    \/ Alone(Tick)
    \/ \E r \in InFlight : Alone(TimeoutFire(r))
    \/ \E r \in InFlight : Alone(DeviceReply(r, TRUE))
    \/ RegResume

\* main() up to app.run(): the globals are as the module left them,
\* discovery = BulbDiscovery() and default_bulb = None
ServerSpec == RegInit /\ [][ServerNext]_vars

\* ---- discover_bulbs over the candidates of a network ----
\* the port ranges callers pass: one port, two ports, none
PortRanges == {<<1, 1>>, <<1, 2>>, <<2, 1>>}

\* the address connect_to_bulb is called with while the network is scanned:
\* the first candidate
RegistryAddr == AddrOf(FirstHost, 1)

\* the client objects that may be constructed: one for every candidate of a
\* scan and one by connect_to_bulb
ScanObjects == 1..(2 * (LastHost - FirstHost) + 1)

ScanInit ==
    /\ InitOver(ScanObjects)
    /\ config = [c \in ScanObjects |-> NoAddr]

\* the steps of a connect_to_bulb call and of the discover_bulbs calls that
\* follow it, and of their probes, with devices that do not answer
ScanNext ==
    \/ probes = <<>> /\ Sequential(ConnectToBulb(RegistryAddr))
    \/ \E w \in awaiting : ConnectToBulbResume(w)
    \/ \E pr \in PortRanges : Sequential(Scan(pr))
    \/ DiscoverBulbsNoLocalIp
    \/ \E a \in DOMAIN probes : ProbeStart(a)
    \/ \E a \in DOMAIN probes : ProbeStartSocketError(a)
    \/ \E w \in awaiting : ProbeConnected(w)
    \/ \E w \in awaiting : ProbeStatus(w)
    \/ DiscoverBulbsReturn
    \/ \E r \in InFlight : Alone(SendtoDone(r))
    \/ Alone(Tick)
    \/ \E r \in InFlight : Alone(TimeoutFire(r))
    \/ RegResume

ScanSpec == ScanInit /\ [][ScanNext]_vars

\* ---- send_command with the command names callers may pass ----
\* BulbCommand.command: a name of the protocol, and the empty string
CommandNames == {"", "ping"}

\* send_command(BulbCommand(command=name)): the name is not looked at before
\* it is put into the datagram
SendNamed(c, name) ==
    /\ Idle
    /\ BeginCommand(c, name, NoId, socket[c], running[c])
    /\ UNCHANGED <<socket, running, last_status, openEps>>

NameNext ==
    \/ \E c \in Clients : Alone(Connect(c))
    \/ \E c \in Clients : \E name \in CommandNames : Alone(SendNamed(c, name))
    \/ \E r \in InFlight : Alone(SendtoDone(r))
    \/ \E r \in InFlight : Alone(SendtoFail(r))
    \/ Alone(Tick)
    \/ \E r \in InFlight : Alone(TimeoutFire(r))
    \/ \E r \in InFlight : Alone(DeviceReply(r, TRUE))
    \/ Alone(Resume)

NameSpec == Init /\ [][NameNext]_vars

\* ---- one client under the scheduling asyncio guarantees ----
\* the next step of the call that carries id i: the executor finishes the
\* sendto, or wait_for wakes on its timeout or on its cancelled future
Progress(i) ==
    \E r \in InFlight :
        /\ r.id = i
        /\ \/ SendtoDone(r) \/ SendtoFail(r)
           \/ TimeoutFire(r) \/ CancelledWake(r)

\* the event loop runs every callback that is ready, the executor finishes
\* every sendto it was given, and the clock of the loop advances
Fairness ==
    /\ WF_vars(Alone(Resume))
    /\ SF_vars(Alone(Tick))
    /\ \A i \in GeneratedIds : SF_vars(Alone(Progress(i)))

\* one client whose callers leave the id to send_command and connect it
\* only while it is not connected
LiveNext ==
    \/ \E c \in Clients : NotConnected(c) /\ Alone(Connect(c))
    \/ \E c \in Clients : Alone(SendCommand(c, NoId))
    \/ \E r \in InFlight : Alone(SendtoDone(r))
    \/ \E r \in InFlight : Alone(SendtoFail(r))
    \/ Alone(Tick)
    \/ \E r \in InFlight : Alone(TimeoutFire(r))
    \/ \E r \in InFlight : Alone(CancelledWake(r))
    \/ \E c \in Clients : Alone(Close(c))
    \/ \E r \in InFlight : Alone(DeviceReply(r, TRUE))
    \/ Alone(Resume)

LiveSpec == Init /\ [][LiveNext]_vars /\ Fairness

(* ---------------------------- claims ------------------------------------ *)
\* a call has just ended, by returning or by raising
CallEnded == outcome.kind \in {"returned", "raised"} /\ outcome.pc # ""

\* the response the device's reply carries, as a BulbResponse for command id
ReplyResponse(reply, id) == [success |-> reply = "ok", error |-> "", rid |-> id]

\* C1: a send_command call whose reply, carrying its correlation id, reached
\* the endpoint before the timeout had passed returns that reply's response,
\* not a timeout.
C1_ReplyResolvesCall ==
    (outcome.kind = "returned" /\ outcome.reply # "none") =>
        /\ outcome.resp.error # "Command timeout"
        /\ outcome.resp = ReplyResponse(outcome.reply, outcome.id)

\* C2: when two commands with distinct ids are in flight on one client and the
\* replies to both have reached the endpoint, in whatever order, the call
\* that returns hands back the reply that carries its own id.
C2_OwnReplyReturned ==
    (/\ outcome.kind = "returned"
     /\ outcome.reply # "none"
     /\ \E r \in InFlight : /\ r.client = outcome.client
                            /\ r.id # outcome.id
                            /\ r.reply # "none")
    => outcome.resp = ReplyResponse(outcome.reply, outcome.id)

\* C3: a send_command call that went on to wait for its reply and returns
\* without one returns when the configured timeout has passed and not
\* before, with success = false, the error "Command timeout" and its own
\* correlation id, and its id is then no key of the pending table; no call
\* waits longer than the timeout.
C3_TimeoutFailure ==
    /\ \A r \in InFlight : r.elapsed <= Timeout
    /\ (outcome.kind = "returned" /\ outcome.pc = "waiting") =>
          /\ outcome.elapsed = Timeout
          /\ outcome.resp = [success |-> FALSE, error |-> "Command timeout",
                             rid |-> outcome.id]
          /\ outcome.id \notin PendingIds(outcome.client)

\* C3, its case: a call has just returned the timeout failure
C3_Witness ==
    /\ outcome.kind = "returned"
    /\ outcome.pc = "waiting"
    /\ outcome.resp.error = "Command timeout"

\* C4: an id is a key of a client's pending table exactly when a send_command
\* call for that id is in flight on the client and has not been cancelled by
\* close.
C4_TableIffInFlight ==
    \A c \in Clients : \A id \in CallerIds \cup GeneratedIds :
        (id \in PendingIds(c)) <=>
            (\E r \in InFlight : r.client = c /\ r.id = id /\ r.fut = "pending")

\* C5: whichever path ends a send_command call, its cleanup leaves no entry
\* of the ended call behind and never removes the pending entry of another
\* call.
C5_CleanupOwnEntryOnly ==
    /\ \A r \in BagToSet(calls) : r.pc = "ended" => ~r.reg
    /\ CallEnded => outcome.popped # "other"

\* C6: a send_command whose id is already a key of the pending table is
\* rejected, so the call that holds the entry keeps it and no two calls in
\* flight on one client, neither cancelled, share an id.
C6_NoSharedId ==
    \A r \in InFlight :
        r.fut = "pending" =>
            /\ r.reg
            /\ CopiesIn(r, calls) = 1
            /\ \A q \in InFlight :
                   (q.client = r.client /\ q.id = r.id /\ q.fut = "pending") => q = r

\* C7: when close() has completed, whatever the state it was called in, the
\* pending table is empty, the client holds no socket and the endpoint it
\* held is released, the client takes no commands, and every send_command
\* call of the client that was in flight has been cancelled.
C7_CloseCancelsAll ==
    [][\A c \in Clients :
         (outcome'.kind = "closed" /\ outcome'.client = c) =>
            /\ pending_commands(c)' = {}
            /\ socket'[c] = NoSocket
            /\ ~running'[c]
            /\ NotConnected(c)'
            /\ socket[c] \notin openEps'
            /\ BagCardinality(calls') = BagCardinality(calls)
            /\ \A r \in InFlight' : r.client = c => r.fut = "cancelled"
      ]_vars

\* an error that no "except Exception" of the client or of the tool
\* functions of network_server catches
Escapes(o) == o.kind = "raised" /\ ~IsException(o.exc)

\* C8: a send_command call that was suspended when its client was closed
\* ends with a failure value; it does not end with an error that escapes the
\* error handling of the client and of the tool functions.
C8_CancelledIsFailureValue == CallEnded => ~Escapes(outcome)

\* C9: once close() has completed on a client that had a socket, no later
\* operation gives the client a socket again or sets it running.
C9_ClosedIsTerminal ==
    [][\A c \in Clients :
         (/\ socket[c] = NoSocket
          /\ (last_status[c].connected \/ \E r \in InFlight : r.client = c))
         => (socket'[c] = NoSocket /\ ~running'[c])
      ]_vars

\* C10: connect() returns normally, with the snapshot marked connected, only
\* if its ping was answered with success; when the ping fails connect()
\* raises and the snapshot is not marked connected.
C10_ConnectNeedsPing ==
    (outcome.op = "connect" /\ CallEnded /\ ~outcome.resp.success) =>
        /\ outcome.kind = "raised"
        /\ ~last_status[outcome.client].connected

\* C11: connect_to_bulb called for an address the registry holds returns the
\* client the registry holds for it and leaves the registry, the clients and
\* their calls as they were; while the address is registered no step makes a
\* new client for it, so no further connect() is started.
C11_ConnectToBulbIdempotent ==
    [][\A a \in Addrs :
         HasKey(connected_bulbs, a) =>
            /\ \A c \in Objects : config'[c] = a => config[c] = a
            /\ (/\ regOut'.op = "connect_to_bulb"
                /\ regOut'.at = "call"
                /\ regOut'.addr = a)
               => /\ regOut'.kind = "returned"
                  /\ regOut'.client = get_bulb(connected_bulbs, a)
                  /\ UNCHANGED <<connected_bulbs, config, calls, socket, running,
                                 last_status, openEps>>
      ]_vars

\* C11, its case: connect_to_bulb has just handed back the client of a
\* registered address
C11_Witness ==
    /\ regOut.op = "connect_to_bulb"
    /\ regOut.at = "call"
    /\ regOut.kind = "returned"
    /\ HasKey(connected_bulbs, regOut.addr)
    /\ regOut.client = get_bulb(connected_bulbs, regOut.addr)

\* C12: when the connect() under connect_to_bulb fails, because the ping got
\* no success response or because the socket could not be opened,
\* connect_to_bulb raises and the registry holds no entry for the address.
C12_FailedConnectNotRegistered ==
    /\ (/\ regOut.op = "connect_to_bulb"
        /\ regOut.at = "resume"
        /\ outcome.op = "connect"
        /\ ~outcome.resp.success)
       => /\ regOut.kind = "raised"
          /\ ~HasKey(connected_bulbs, regOut.addr)
    /\ (/\ regOut.op = "connect_to_bulb"
        /\ regOut.at = "call"
        /\ regOut.kind = "raised")
       => ~HasKey(connected_bulbs, regOut.addr)

\* C15: close_all_connections closes every client the registry holds, also
\* when close() of some of them raises: it returns without raising, every
\* client it held is stopped, holds no descriptor and no pending entry, and
\* the registry is empty.
C15_CloseAllClosesAll ==
    [][regOut'.op = "close_all_connections" =>
         /\ regOut'.kind = "returned"
         /\ LiveSlots(connected_bulbs') = {}
         /\ regOut'.closed = Values(connected_bulbs)
         /\ \A c \in Values(connected_bulbs) :
               /\ ~running'[c]
               /\ socket'[c] \in {NoSocket, DeadSocket}
               /\ pending_commands(c)' = {}
               /\ socket[c] \notin openEps'
      ]_vars

\* C15, its case: close_all_connections has closed two clients or more, the
\* close() of one raised and the close() of another did not
C15_Witness ==
    /\ regOut.op = "close_all_connections"
    /\ Cardinality(regOut.closed) >= 2
    /\ regOut.failed # {}
    /\ regOut.failed # regOut.closed

\* C16: disconnect_bulb for a registered address closes the client of that
\* address and removes that entry and no other; for an address that is not
\* registered it changes nothing.
C16_DisconnectRemovesEntry ==
    [][\A a \in Addrs :
         (regOut'.op = "disconnect_bulb" /\ regOut'.addr = a) =>
            IF HasKey(connected_bulbs, a)
            THEN /\ ~running'[get_bulb(connected_bulbs, a)]
                 /\ pending_commands(get_bulb(connected_bulbs, a))' = {}
                 /\ ~HasKey(connected_bulbs', a)
                 /\ \A b \in Addrs \ {a} :
                       /\ HasKey(connected_bulbs', b) <=> HasKey(connected_bulbs, b)
                       /\ get_bulb(connected_bulbs', b) = get_bulb(connected_bulbs, b)
            ELSE UNCHANGED <<connected_bulbs, socket, running, calls, last_status,
                             openEps, config>>
      ]_vars

\* C18: every entry of the registry maps an address to a live client: the
\* client was constructed for that address and it is connected, neither
\* closed nor not yet connected.
C18_RegistryHoldsLiveClients ==
    \A i \in LiveSlots(connected_bulbs) :
        LET c == connected_bulbs[i].client IN
        /\ config[c] = connected_bulbs[i].key
        /\ ~NotConnected(c)

\* C17: get_all_bulb_statuses returns, and what it returns holds exactly one
\* record for every client of the registry; a client whose status could not
\* be read has a record with connected = false and is not left out.
C17_OneRecordPerClient ==
    regOut.op = "get_all_bulb_statuses" =>
        /\ regOut.kind = "returned"
        /\ Len(regOut.records) = Cardinality(LiveSlots(connected_bulbs))
        /\ \A i \in LiveSlots(connected_bulbs) :
              \E j \in 1..Len(regOut.records) :
                  regOut.records[j].bulb = connected_bulbs[i].key

\* C19: close() of one client, whether it returns or raises, cancels the
\* pending calls of that client only: the socket, the running flag, the
\* status snapshot and every call of every other client, with its future and
\* its entry in the pending table, are as they were, and no other client's
\* endpoint is released.
C19_CloseLeavesOtherClients ==
    [][\A c \in Objects :
         (outcome'.op = "close" /\ outcome'.client = c) =>
            /\ \A d \in Objects \ {c} :
                  /\ socket'[d] = socket[d]
                  /\ running'[d] = running[d]
                  /\ last_status'[d] = last_status[d]
                  /\ pending_commands(d)' = pending_commands(d)
                  /\ (socket[d] \in openEps) => (socket[d] \in openEps')
            /\ \A r \in BagToSet(calls) \cup BagToSet(calls') :
                  r.client # c => CopiesIn(r, calls') = CopiesIn(r, calls)
      ]_vars

\* C19, its case: a client has just been closed while a call of another
\* client is pending in that client's table
C19_Witness ==
    /\ outcome.op = "close"
    /\ \E r \in InFlight : /\ r.client # outcome.client
                           /\ r.fut = "pending"
                           /\ r.reg

\* a call that this step has registered: send_command got past its
\* connection test
Registered(r) ==
    /\ r \in BagToSet(calls')
    /\ r.pc = "sending"
    /\ r.reg
    /\ CopiesIn(r, calls') > CopiesIn(r, calls)

C13_DiscoverFindsReachable ==
    (regOut.op = "discover_bulbs" /\ regOut.at = "resume") =>
        /\ regOut.kind = "returned"
        /\ regOut.found = regOut.answered

C21_SendFailureIsResponse ==
    (CallEnded /\ outcome.pc = "sending") =>
        /\ outcome.kind = "returned"
        /\ outcome.resp = [success |-> FALSE, error |-> "OSError", rid |-> outcome.id]
        /\ outcome.id # NoId
        /\ outcome.id \notin PendingIds(outcome.client)

\* C21, its case: a call has just returned the failure response of a failed
\* sendto
C21_Witness ==
    /\ outcome.kind = "returned"
    /\ outcome.pc = "sending"
    /\ ~outcome.resp.success
    /\ outcome.resp.rid = outcome.id

\* C22: set_brightness with a value outside 0..100 raises ValueError at once:
\* the step registers no call (so no datagram goes out and no pending entry
\* is made), suspends nothing and leaves the snapshot and the socket as they
\* were; and no set_brightness call in flight carries such a value
C22_BadBrightnessRejected ==
    /\ [][\A c \in Clients : \A b \in BrightnessInputs :
            ((b < 0 \/ b > 100) /\ SetBrightness(c, b)) =>
                /\ outcome'.kind = "raised" /\ outcome'.exc = "ValueError"
                /\ calls' = calls
                /\ awaiting' = awaiting
                /\ last_status' = last_status
                /\ socket' = socket]_vars
    /\ [](\A w \in awaiting : w.kind = "set_brightness" => (0 <= w.arg /\ w.arg <= 100))

C22_Witness ==
    /\ outcome.kind = "raised" /\ outcome.exc = "ValueError"
    /\ outcome.op = "set_brightness"
    /\ calls = EmptyBag

\* C23: when a set_brightness(b) with b in 0..100 resumes after its command,
\* it returns success with the cached brightness equal to b if the device
\* replied with success, and returns failure with the snapshot unchanged if
\* the reply was a failure or never arrived
C23_BrightnessFollowsReply ==
    [][\A w \in awaiting :
          (MethodResume(w) /\ w.kind = "set_brightness") =>
              IF outcome.reply = "ok"
              THEN /\ regOut'.kind = "returned" /\ regOut'.value = TRUE
                   /\ last_status'[w.client].brightness = w.arg
              ELSE /\ regOut'.kind = "returned" /\ regOut'.value = FALSE
                   /\ last_status' = last_status]_vars

\* C30: turn_on, turn_off and set_color_rgb register one call each when they
\* start and none when they resume; power and color of the snapshot change
\* only in the resumption of such a method whose response says success, and
\* then to the value asked for; a method that resumes with a response that
\* is no success (failure reply, no reply, transport failure) returns false
\* and leaves the whole snapshot as it was
C30_Started(c) ==
    \/ TurnOn(c) \/ TurnOff(c)
    \/ \E rgb \in ColorInputs : ~ChannelOutOfRange(rgb) /\ SetColorRgb(c, rgb)

C30_UpdateOnlyOnSuccess ==
    /\ [][\A c \in Clients : (C30_Started(c) /\ ~NotConnected(c)) =>
            /\ BagCardinality(calls') = BagCardinality(calls) + 1
            /\ last_status' = last_status]_vars
    /\ [][\A c \in Clients :
            (\/ last_status'[c].power # last_status[c].power
             \/ last_status'[c].color # last_status[c].color) =>
                \E w \in awaiting :
                    /\ MethodResume(w) /\ w.client = c
                    /\ outcome.kind = "returned" /\ outcome.resp.success
                    /\ last_status'[c] = DeviceUpdate(last_status[c], w.kind, w.arg,
                                                      outcome.resp)]_vars
    /\ [][\A w \in awaiting :
            (/\ MethodResume(w)
             /\ w.kind \in {"turn_on", "turn_off", "set_color_rgb"}
             /\ outcome.kind = "returned" /\ ~outcome.resp.success) =>
                /\ regOut'.kind = "returned" /\ regOut'.value = FALSE
                /\ calls' = calls
                /\ last_status' = last_status]_vars

C30_Witness ==
    /\ regOut.op = "turn_on" /\ regOut.kind = "returned" /\ regOut.value = FALSE
    /\ outcome.reply = "fail"
    /\ ~last_status[regOut.client].power

\* C27: the step in which the command of a get_status ends with a response
\* that is no success (timeout, transport failure, failure reply) marks the
\* snapshot not connected and leaves power, brightness and color alone; no
\* step changes these three fields while a get_status is suspended; and the
\* resumed get_status hands out a snapshot that is marked not connected
C27_SameFields(c) ==
    /\ last_status'[c].power = last_status[c].power
    /\ last_status'[c].brightness = last_status[c].brightness
    /\ last_status'[c].color = last_status[c].color

C27_FailedStatusMarksUnreachable ==
    /\ [][\A c \in Clients :
            (/\ outcome.kind = "none" /\ outcome'.kind = "returned"
             /\ outcome'.op = "get_status" /\ outcome'.client = c
             /\ ~outcome'.resp.success) =>
                /\ last_status'[c].connected = FALSE
                /\ C27_SameFields(c)]_vars
    /\ [][(\E w \in awaiting : w.kind = "get_status") =>
            \A c \in Clients : C27_SameFields(c)]_vars
    /\ [][\A w \in awaiting :
            (GetStatusResume(w) /\ outcome.kind = "returned" /\ ~outcome.resp.success) =>
                /\ held'.of = w.client /\ held'.connected = FALSE
                /\ last_status' = last_status]_vars

C27_Witness ==
    /\ regOut.op = "get_status" /\ regOut.kind = "returned"
    /\ outcome.op = "get_status" /\ outcome.reply = "fail"
    /\ held.of = outcome.client /\ ~held.connected
    /\ ~last_status[outcome.client].connected

\* C28: in every reachable state the snapshot of every client has a boolean
\* power, a brightness in 0..100, three color channels in 0..255 and a
\* boolean connected flag, and no other field (it holds of the client's own
\* operations, DevSpec, and fails when the caller writes into a snapshot it
\* was handed, CopySpec)
C28_SnapshotWellFormed ==
    \A c \in Clients :
        /\ DOMAIN last_status[c] = {"power", "brightness", "color", "connected"}
        /\ last_status[c].power \in BOOLEAN
        /\ last_status[c].brightness \in 0..100
        /\ last_status[c].color \in [1..3 -> 0..255]
        /\ last_status[c].connected \in BOOLEAN

\* C26: a get_status whose command was answered by the device with success
\* ends with the snapshot marked connected; and whatever data the reply at
\* the socket carries (no field, a connected field that is false, status
\* fields), what get_status does with a success response of that data is to
\* merge the fields and mark the snapshot connected
C26_SuccessReplyMarksReachable ==
    /\ [][\A c \in Clients :
            (/\ outcome.kind = "none" /\ outcome'.kind = "returned"
             /\ outcome'.op = "get_status" /\ outcome'.client = c
             /\ outcome'.reply = "ok") =>
                last_status'[c].connected = TRUE]_vars
    /\ [](\A r \in InFlight : \A d \in ReplyData :
            (r.op = "get_status" /\ r.reply = "ok") =>
                LET resp == [success |-> TRUE, error |-> "", rid |-> r.id, data |-> d]
                    st == AfterResponse(last_status[r.client], "get_status", resp)
                IN /\ st.connected = TRUE
                   /\ \A f \in DOMAIN d \ {"connected"} : st[f] = d[f])

\* C24: when set_color_hex is given six hex digits, with or without one
\* leading '#', the step registers one set_color call and the command carries
\* r, g, b = the values of the first, second and third pair of digits; and
\* when the six digits are the two-digit encodings of a triple, encoding the
\* triple the command carries gives the six digits back
C24_Body(hex) == IF hex # <<>> /\ hex[1] = "#" THEN Tail(hex) ELSE hex
C24_SixDigits(s) == Len(s) = 6 /\ \A i \in 1..6 : IsHexDigit(s[i])
C24_Pair(s, k) == 16 * HexValue(s[2 * k - 1]) + HexValue(s[2 * k])

C24_HexDecodesPairs ==
    /\ [][\A c \in Clients :
            (C24_SixDigits(C24_Body(hex_color)) /\ SetColorHex(c)) =>
                /\ BagCardinality(calls') = BagCardinality(calls) + 1
                /\ \E r \in BagToSet(calls') : \E w \in awaiting' \ awaiting :
                      /\ r \notin BagToSet(calls) /\ r.op = "set_color"
                      /\ w.id = r.id /\ w.kind = "set_color_hex"
                      /\ w.arg = <<C24_Pair(C24_Body(hex_color), 1),
                                   C24_Pair(C24_Body(hex_color), 2),
                                   C24_Pair(C24_Body(hex_color), 3)>>]_vars
    /\ [](\A w \in awaiting :
            (/\ w.kind = "set_color_hex"
             /\ Len(C24_Body(hex_color)) = 6
             /\ \A i \in 1..6 : \E k \in 1..16 : C24_Body(hex_color)[i] = LowerDigits[k]) =>
                Encode(w.arg) = C24_Body(hex_color))

C24_Witness ==
    /\ hex_color = <<"#", "1", "2", "A", "B", "e", "9">>
    /\ \E w \in awaiting : w.kind = "set_color_hex" /\ w.arg = <<18, 171, 233>>
    /\ \E r \in InFlight : r.op = "set_color" /\ r.pc = "waiting"

\* C25: set_color_hex raises ValueError, registering no call, for every
\* argument that is not six hex digits preceded by at most one '#'; and
\* set_color_rgb does so for every triple with a channel outside 0..255
C25_WellFormed(hex) ==
    LET body == IF hex # <<>> /\ hex[1] = "#" THEN Tail(hex) ELSE hex
    IN Len(body) = 6 /\ \A i \in 1..6 : IsHexDigit(body[i])

C25_MalformedRejected ==
    /\ [][\A c \in Clients :
            (~C25_WellFormed(hex_color) /\ SetColorHex(c)) =>
                /\ outcome'.kind = "raised" /\ outcome'.exc = "ValueError"
                /\ calls' = calls /\ awaiting' = awaiting]_vars
    /\ [][\A c \in Clients : \A rgb \in ColorInputs :
            ((\E i \in 1..3 : rgb[i] < 0 \/ rgb[i] > 255) /\ SetColorRgb(c, rgb)) =>
                /\ outcome'.kind = "raised" /\ outcome'.exc = "ValueError"
                /\ calls' = calls /\ awaiting' = awaiting]_vars

\* C29: no write of the caller into a snapshot it was handed by get_status
\* or get_last_status, the nested color mapping included, changes the
\* snapshot of the client (and so what a later get_last_status returns)
C29_CallerWritesStayOutside ==
    [][((\E v \in BOOLEAN : CallerSetsPower(v))
          \/ (\E i \in 1..3 : \E v \in ChannelWrites : CallerSetsChannel(i, v)))
        => last_status' = last_status]_vars

\* C31: every send_command call in flight ends: whatever the device does and
\* whether or not the client is closed meanwhile, a state follows in which
\* no call with its id is in flight
C31_EveryCallEnds ==
    \A i \in GeneratedIds : (\E r \in InFlight : r.id = i) ~> ~(\E r \in InFlight : r.id = i)

C31_Witness ==
    /\ outcome.kind = "raised" /\ outcome.exc = "CancelledError"
    /\ outcome.id \in GeneratedIds
    /\ ~running[outcome.client]
    /\ \E r \in InFlight : r.reply = "ok" /\ r.id # outcome.id

\* C32: send_command with an empty command name raises at once and registers
\* no call, so that no call with an empty name is ever in flight (none is
\* sent, none has a pending entry)
C32_EmptyNameRejected ==
    /\ [][\A c \in Clients : SendNamed(c, "") =>
            (outcome'.kind = "raised" /\ calls' = calls)]_vars
    /\ [](\A r \in BagToSet(calls) : r.op # "")

\* C33: discover_bulbs probes each candidate (host 1..254 of the local
\* network, here 1..LastHost-1, and each port of the port range, both bounds
\* included) exactly once, each probe through a client constructed for it,
\* which no other probe uses and which is not a client of the registry; host
\* 0 and the last host number are never probed; when the local address is not
\* found no probe is made and the result is empty.
C33_ProbeClients ==
    {w \in awaiting : w.kind \in {"probe_connect", "probe_status"}}

C33_EachCandidateOnce ==
    /\ [][\A pr \in PortRanges : Scan(pr) =>
            LET T == TaskList(pr)
                candidates == {AddrOf(h, p) : h \in 1..(LastHost - 1), p \in pr[1]..pr[2]}
            IN  /\ \A j, k \in 1..Len(T) : j # k => T[j] # T[k]
                /\ {T[k] : k \in 1..Len(T)} = candidates
                /\ \A k \in 1..Len(T) : (T[k] \div PortSpan) \notin {0, LastHost}
                /\ IF candidates = {}
                   THEN probes' = <<>> /\ regOut'.found = {} /\ calls' = calls
                   ELSE /\ DOMAIN probes' = candidates
                        /\ \A a \in candidates : probes'[a].state = "todo"]_vars
    /\ [][\A a \in DOMAIN probes :
            (ProbeStart(a) \/ ProbeStartSocketError(a)) =>
                /\ probes[a].state = "todo"
                /\ \E c \in DOMAIN config :
                       /\ config[c] = NoAddr /\ config'[c] = a
                       /\ \A d \in DOMAIN config \ {c} : config'[d] = config[d]
                       /\ c \notin Values(connected_bulbs)
                       /\ \A w \in awaiting : w.client # c
                       /\ \A w \in awaiting' \ awaiting : w.client = c /\ w.addr = a]_vars
    /\ [][\A a \in DOMAIN probes :
            (probes' # <<>> /\ probes[a].state # "todo") => probes'[a].state # "todo"]_vars
    /\ [](\A v, w \in C33_ProbeClients :
            (v # w => v.client # w.client /\ v.addr # w.addr)
            /\ v.client \notin Values(connected_bulbs)
            /\ config[v.client] = v.addr
            /\ probes[v.addr].state = "running")
    /\ [][DiscoverBulbsNoLocalIp =>
            /\ probes' = probes /\ calls' = calls /\ config' = config
            /\ awaiting' = awaiting /\ openEps' = openEps
            /\ regOut'.found = {}]_vars

C33_Witness ==
    /\ HasKey(connected_bulbs, RegistryAddr)
    /\ \E v, w \in C33_ProbeClients :
           /\ v.addr = AddrOf(1, 1) /\ w.addr = AddrOf(1, 2)
           /\ v.kind = "probe_status" /\ w.kind = "probe_connect"
           /\ get_bulb(connected_bulbs, RegistryAddr) \notin {v.client, w.client}

\* C34: a tool called without an address (turn on, turn off, set brightness,
\* set color, get status, ping) works on the default bulb connection the
\* server made at startup: no such call is answered with the failure "No
\* default bulb connection available".
C34_DefaultBulbAvailable ==
    ~(/\ regOut.kind = "returned" /\ regOut.op \in Tools
      /\ regOut.addr = NoAddr
      /\ regOut.exc = "No default bulb connection available")

\* C35: when two connect_to_bulb calls for one unregistered address overlap,
\* one client at most is constructed and connected for the address, so the
\* calls that wait on a connect for the same address wait on the same client,
\* and no running client with an open endpoint is outside the registry unless
\* its connect_to_bulb is still waiting.
C35_OneClientPerAddress ==
    /\ \A v, w \in awaiting :
          (/\ v.kind = "connect_to_bulb" /\ w.kind = "connect_to_bulb"
           /\ v.addr = w.addr) => v.client = w.client
    /\ \A c \in Objects :
          (/\ running[c] /\ socket[c] \in openEps
           /\ \E d \in Objects \ {c} : config[d] = config[c]
           /\ HasKey(connected_bulbs, config[c])
           /\ get_bulb(connected_bulbs, config[c]) # c)
          => \E w \in awaiting : w.client = c

\* C36: get_all_bulb_statuses completes and returns its list of records also
\* when connect_to_bulb, disconnect_bulb or close_all_connections changes the
\* registry during one of its status waits: it never ends by raising.
C36_StatusesSurviveRegistryChange ==
    regOut.op = "get_all_bulb_statuses" => regOut.kind # "raised"

\* C37: no endpoint is open without a client referring to it: a client has
\* one open endpoint at most, and what it opened, by a repeated or a failed
\* connect() as well, is released when its close() has completed.
C37_NoOrphanEndpoint ==
    /\ Orphans = {}
    /\ \A c \in DOMAIN socket :
          (outcome.op = "close" /\ outcome.client = c) => socket[c] \notin openEps

\* C38: send_command registers the pending entry of a command's id before
\* the datagram can reach the device: whenever the reply to a call that has
\* not ended arrives, the pending table of the client holds the call's id,
\* and every call that has just begun is in the table.
C38_EntryBeforeReply ==
    [][/\ \A r \in InFlight :
             (ReplyWhileSending(r) \/ DeviceReply(r, TRUE)) => r.id \in PendingIds(r.client)
       /\ \A r \in BagToSet(calls') : Registered(r) => r.id \in PendingIds(r.client)'
      ]_vars
====
